---- MODULE Spec2Model ----
(***************************************************************************)
(* Model of DebIDE's task runner (src/debide/app.py) and plugin manager    *)
(* (src/debide/plugins.py).                                                *)
(*                                                                         *)
(* Strings that the code inspects character by character (task commands,   *)
(* child output lines) are sequences of one-character strings.  Python's   *)
(* None is the record None; an optional value v is Some(v).                *)
(***************************************************************************)
EXTENDS Integers, Sequences, FiniteSets, TLC

\* Bounds of the model.
MaxStarts == 2      \* calls of start_task in one run of SpecRunner
MaxGateStarts == 1  \* calls of start_task in one run of SpecStart and SpecFrame
MaxActions == 1     \* key bindings and list events in one run of SpecFrame
MaxRaceStarts == 3  \* calls of start_task in one run of SpecRace
MaxLiveStarts == 1  \* calls of start_task in one run of SpecLive
MaxLines == 1       \* output lines read from one child process
MaxOpens == 1       \* files opened in the editor in one run
MaxEntries == 2     \* installed plugin entry points
MaxCalls == 3       \* host calls into the plugin manager after discover
MaxItems == 2       \* raw task mappings handed to coerce_tasks
MaxFileTasks == 1   \* task mappings in a configuration file
MaxCommandLen == 3  \* characters of a command handed to the pre-flight checker
MaxEnvLen == 2      \* entries of a task's env
MaxObjects == 7     \* dicts and lists created in one run of SpecAlias

None == [none |-> TRUE]
Some(v) == [val |-> v]

(***************************************************************************)
(* Text helpers: str.strip, str.split(sep, 1)[0], "sep in s".              *)
(***************************************************************************)
Whitespace == {" ", "\t", "\n", "\r", "\f"}

RECURSIVE lstrip(_)
lstrip(s) == IF s # <<>> /\ Head(s) \in Whitespace THEN lstrip(Tail(s)) ELSE s

RECURSIVE rstrip(_)
rstrip(s) ==
    IF s # <<>> /\ s[Len(s)] \in Whitespace
    THEN rstrip(SubSeq(s, 1, Len(s) - 1))
    ELSE s

strip(s) == rstrip(lstrip(s))

StartsAt(s, sep, i) ==
    /\ i + Len(sep) - 1 <= Len(s)
    /\ SubSeq(s, i, i + Len(sep) - 1) = sep

Contains(s, sep) == \E i \in 1..Len(s) : StartsAt(s, sep, i)

find(s, sep) ==
    CHOOSE i \in 1..Len(s) :
        StartsAt(s, sep, i) /\ \A j \in 1..(i - 1) : ~StartsAt(s, sep, j)

split_first(s, sep) == SubSeq(s, 1, find(s, sep) - 1)

(***************************************************************************)
(* shlex.split(s, posix=True): whitespace_split is on, comments are off,   *)
(* the escape character is the backslash and it is honoured inside double  *)
(* quotes only.  The result is [ok, tokens]; ok = FALSE is ValueError.     *)
(***************************************************************************)
Quotes == {"'", "\""}
Escape == "\\"
ShlexError == [ok |-> FALSE, tokens |-> <<>>]

RECURSIVE shlex_read(_, _, _, _, _)
shlex_read(s, state, escapedstate, token, out) ==
    IF s = <<>>
    THEN IF state \in Quotes \/ state = Escape
         THEN ShlexError
         ELSE IF state = "a"
              THEN [ok |-> TRUE, tokens |-> Append(out, token)]
              ELSE [ok |-> TRUE, tokens |-> out]
    ELSE LET c == Head(s)
             rest == Tail(s)
         IN CASE state = " " ->
                    IF c \in Whitespace
                    THEN shlex_read(rest, " ", escapedstate, <<>>, out)
                    ELSE IF c = Escape
                    THEN shlex_read(rest, Escape, "a", <<>>, out)
                    ELSE IF c \in Quotes
                    THEN shlex_read(rest, c, escapedstate, <<>>, out)
                    ELSE shlex_read(rest, "a", escapedstate, <<c>>, out)
              [] state \in Quotes ->
                    IF c = state
                    THEN shlex_read(rest, "a", escapedstate, token, out)
                    ELSE IF c = Escape /\ state = "\""
                    THEN shlex_read(rest, Escape, state, token, out)
                    ELSE shlex_read(rest, state, escapedstate, Append(token, c), out)
              [] state = Escape ->
                    IF escapedstate \in Quotes /\ c # Escape /\ c # escapedstate
                    THEN shlex_read(rest, escapedstate, escapedstate,
                                    token \o <<Escape, c>>, out)
                    ELSE shlex_read(rest, escapedstate, escapedstate,
                                    Append(token, c), out)
              [] OTHER ->
                    IF c \in Whitespace
                    THEN shlex_read(rest, " ", escapedstate, <<>>, Append(out, token))
                    ELSE IF c \in Quotes
                    THEN shlex_read(rest, c, escapedstate, token, out)
                    ELSE IF c = Escape
                    THEN shlex_read(rest, Escape, "a", token, out)
                    ELSE shlex_read(rest, "a", escapedstate, Append(token, c), out)

shlex_split(s) == shlex_read(s, " ", " ", <<>>, <<>>)

(***************************************************************************)
(* The executable pre-flight checker.                                      *)
(***************************************************************************)
Separators == << <<"&", "&">>, <<"|", "|">>, <<"|">>, <<";">>, <<"\n">> >>

RECURSIVE truncate(_, _)
\* The truncation that knows "&&" only.
truncate_first_only(stripped, k) ==
    IF Contains(stripped, Separators[1])
    THEN strip(split_first(stripped, Separators[1]))
    ELSE stripped

truncate(stripped, k) ==
    IF k > Len(Separators)
    THEN stripped
    ELSE truncate(IF Contains(stripped, Separators[k])
                  THEN strip(split_first(stripped, Separators[k]))
                  ELSE stripped,
                  k + 1)

\* The test that takes any token with "=" for an assignment.
is_assignment_any_key(token) ==
    /\ Contains(token, <<"=">>)
    /\ ~(token # <<>> /\ Head(token) \in Quotes)

is_assignment(token) ==
    /\ Contains(token, <<"=">>)
    /\ ~(token # <<>> /\ Head(token) \in Quotes)
    /\ split_first(token, <<"=">>) # <<>>

RECURSIVE first_candidate(_)
first_candidate(tokens) ==
    IF tokens = <<>>
    THEN None
    ELSE IF is_assignment(Head(tokens))
         THEN first_candidate(Tail(tokens))
         ELSE Some(Head(tokens))

\* The extraction that takes the segment itself for the executable when
\* shlex.split raises.
extract_primary_command_fails_closed(command) ==
    LET stripped == strip(command)
    IN IF stripped = <<>>
       THEN None
       ELSE LET split == shlex_split(truncate(stripped, 1))
            IN IF split.ok
               THEN first_candidate(split.tokens)
               ELSE Some(truncate(stripped, 1))

extract_primary_command(command) ==
    LET stripped == strip(command)
    IN IF stripped = <<>>
       THEN None
       ELSE LET split == shlex_split(truncate(stripped, 1))
            IN IF split.ok THEN first_candidate(split.tokens) ELSE None

\* The executables shutil.which finds on the search path.
OnPath == { <<"a">> }

which(cmd) == cmd \in OnPath

detect_missing_executable(command) ==
    LET snippet == extract_primary_command(command)
    IN IF snippet = None
       THEN None
       ELSE IF which(snippet.val) THEN None ELSE snippet

\* Python truthiness of an optional string: None and "" are false.
Truthy(opt) == opt # None /\ opt.val # <<>>


(***************************************************************************)
(* The task runner: DebIDEApp._start_task, _execute_task and               *)
(* _handle_task_completion, with the editor state autosave reads.          *)
(***************************************************************************)
VARIABLES
    running_task,    \* DebIDEApp._running_task: 0 is None, else an execution's id
    execs,           \* the asyncio tasks created by _start_task, by id
    console,         \* the lines written to the ConsolePane (the log sink)
    notifications,   \* the calls of App.notify
    editor,          \* EditorPane: is_dirty and whether current_path is set
    config,          \* DebIDEConfig: autosave and tasks
    file_saved,      \* EditorPane.FileSaved messages posted and not yet handled
    saves,           \* number of calls of EditorPane.save so far
    opened,          \* number of files loaded into the editor so far
    starts_left,     \* calls of start_task still to come in this run
    last_task,       \* the argument of the latest call of start_task (0: none yet)
    task_details,    \* the name of the task the TaskDetails widget shows ("": none)
    screen,          \* "main", or the modal screen pushed over it
    actions_left     \* key bindings and list events still to come in this run

runner_vars ==
    <<running_task, execs, console, notifications, editor, config, file_saved,
      saves, opened, starts_left, last_task,
      task_details, screen, actions_left>>

\* The state of the screens and widgets the runner does not read.
ui_vars == <<task_details, screen, actions_left>>

\* The plugin manager (PluginManager), modelled further down.
VARIABLES
    entry_points,          \* the installed entry points of the group, in order
    loaded_plugins,        \* PluginManager._loaded_plugins
    messages,              \* PluginManager._messages
    static_tasks,          \* PluginManager._static_tasks: <<source, mapping>>
    task_providers,        \* PluginManager._task_providers: <<source, provider>>
    app_hooks,             \* PluginManager._app_hooks: <<source, hook>>
    app_hooks_dispatched,  \* PluginManager._app_hooks_dispatched
    position,              \* discover: the entry points its loop has handled
    discovered,            \* discover has returned
    last_call,             \* the latest host call into the manager
    collected,             \* the latest collect_tasks call: how it ended, its
                           \* result, the providers it invoked
    returned,              \* what the latest consume_messages call returned
    hook_calls,            \* the hooks invoked so far, in invocation order
    dispatch_calls,        \* host calls of dispatch_app_ready so far
    calls_left,            \* host calls of collect_tasks / dispatch_app_ready to come
    heap                   \* the mapping and list objects plugin code, the manager
                           \* and its callers hold, by identity

plugin_vars ==
    <<entry_points, loaded_plugins, messages, static_tasks, task_providers,
      app_hooks, app_hooks_dispatched, position, discovered, last_call,
      collected, returned, hook_calls, dispatch_calls, calls_left, heap>>

\* One call of a function of the program on its own, outside the application:
\* coerce_tasks, load_config, _extract_primary_command.
VARIABLES
    call_args,             \* the arguments of the call
    call_result            \* how the call ended and what it returned

call_vars == <<call_args, call_result>>

\* No such call is made.
NoCall == call_args = <<>> /\ call_result = [outcome |-> "not called"]

\* TaskSpecs a configuration can hold.  "a" is on the search path, "x" is not.
Build == [name |-> "build", command |-> <<"a">>]
Lint ==
    [name |-> "lint",
     command |-> <<"F", "=", "1", " ", "x", " ", "-", "f", " ", "&", "&", " ", "a">>]
Quoted == [name |-> "quoted", command |-> <<"'", "'", " ", "x">>]
\* Commands the pre-flight check cannot read: a quote that is not closed, and
\* nothing but an environment assignment.
Unbalanced == [name |-> "unbalanced", command |-> <<"'", "x">>]
Assigned == [name |-> "assigned", command |-> <<"F", "=", "1">>]

\* config.tasks, and the positions of the task list the user can activate.
Tasks == config.tasks
TaskIds == 1..Len(Tasks)

\* What a child process can write to its pipe as its i-th line, as bytes: a
\* numbered line with trailing blanks, or bytes that are not valid UTF-8.
InvalidByte == "0xFF"
Digits == <<"1", "2", "3", "4", "5">>
RawLines(i) == { <<Digits[i], " ", "\n">>, <<InvalidByte, "\n">> }
ExitCodes == {0, 2}
NoCode == -1

\* bytes.decode(): UnicodeDecodeError on a byte that is not valid UTF-8.
decodable(line) == \A i \in 1..Len(line) : line[i] # InvalidByte

Entry(kind, exec, task, text, code) ==
    [kind |-> kind, exec |-> exec, task |-> task, text |-> text, code |-> code]

Note(severity, kind, exec, text) ==
    [severity |-> severity, kind |-> kind, exec |-> exec, text |-> text]

ReadyLine == Entry("ready", 0, "", <<>>, 0)

Terminal == {"returned", "raised", "cancelled"}

\* asyncio.Task.done()
done(e) == execs[e].pc \in Terminal

ExecIds == 1..Len(execs)

\* app.py:332  self._running_task and not self._running_task.done()
busy == running_task # 0 /\ ~done(running_task)

\* The autosave condition without the save target.
autosave_due_without_target == config.autosave /\ editor.dirty

\* app.py:335  the autosave condition
autosave_due == config.autosave /\ editor.dirty /\ editor.has_path

\* The application once mounted, with configuration cfg, for a run of n calls
\* of start_task.
InitApp(cfg, n) ==
    /\ running_task = 0
    /\ execs = <<>>
    /\ console = <<ReadyLine>>
    /\ notifications = <<>>
    /\ editor = [dirty |-> FALSE, has_path |-> FALSE]
    /\ config = cfg
    /\ file_saved = 0
    /\ saves = 0
    /\ opened = 0
    /\ starts_left = n
    /\ last_task = 0
    /\ task_details = IF cfg.tasks = <<>> THEN "" ELSE cfg.tasks[1].name
    /\ screen = "main"
    /\ actions_left = IF n = 0 THEN 0 ELSE MaxActions

\* An execution that is created with its process already spawned.
new_execution_already_spawned(t) ==
    [task |-> t, spec |-> Tasks[t], pc |-> "streaming", cb |-> FALSE,
     emitted |-> <<>>, child_exit |-> NoCode]

\* asyncio.create_task(self._execute_task(task)): the coroutine has not run
\* yet; it holds the TaskSpec it was given.
new_execution(t) ==
    [task |-> t, spec |-> Tasks[t], pc |-> "created", cb |-> FALSE,
     emitted |-> <<>>, child_exit |-> NoCode]

\* app.py:341  if missing:
refuse(missing) == Truthy(missing)

\* DebIDEApp._start_task(task); also reached from action_run_task and
\* handle_task_activated.  EditorPane.save either writes the file (and posts
\* FileSaved) or raises EditorError.
start_task(t) ==
    /\ starts_left > 0
    /\ starts_left' = starts_left - 1
    /\ last_task' = t
    /\ UNCHANGED <<config, opened>>
    /\ IF busy
       THEN /\ notifications' =
                  Append(notifications, Note("warning", "already_running", 0, <<>>))
            /\ UNCHANGED <<running_task, execs, console, editor, file_saved, saves>>
       ELSE \E save_ok \in (IF autosave_due THEN BOOLEAN ELSE {TRUE}) :
            LET missing == detect_missing_executable(Tasks[t].command)
                noted == IF autosave_due /\ ~save_ok
                         THEN Append(notifications,
                                     Note("error", "autosave_failed", 0, <<>>))
                         ELSE notifications
            IN /\ editor' = IF autosave_due /\ save_ok
                            THEN [editor EXCEPT !.dirty = FALSE]
                            ELSE editor
               /\ saves' = IF autosave_due THEN saves + 1 ELSE saves
               /\ file_saved' = IF autosave_due /\ save_ok
                                THEN file_saved + 1
                                ELSE file_saved
               /\ IF refuse(missing)
                  THEN /\ console' = Append(console,
                              Entry("not_on_path", 0, Tasks[t].name, missing.val, 0))
                       /\ notifications' =
                              Append(noted, Note("error", "not_on_path", 0, missing.val))
                       /\ UNCHANGED <<running_task, execs>>
                  ELSE /\ execs' = Append(execs, new_execution(t))
                       /\ running_task' = Len(execs) + 1
                       /\ console' = console
                       /\ notifications' = noted
    /\ UNCHANGED <<ui_vars, plugin_vars, call_vars>>

\* _execute_task up to its first await: the section header and the command echo.
execute_begin(e) ==
    /\ execs[e].pc = "created"
    /\ console' = console \o
           << Entry("section", e, execs[e].spec.name, <<>>, 0),
              Entry("echo", e, execs[e].spec.name,
                    execs[e].spec.command, 0) >>
    /\ execs' = [execs EXCEPT ![e].pc = "spawning"]
    /\ UNCHANGED <<running_task, notifications, editor, config, file_saved, saves,
                   opened, starts_left, last_task>>
    /\ UNCHANGED <<ui_vars, plugin_vars, call_vars>>

\* await asyncio.create_subprocess_shell(...): the process, or OSError (the
\* resolved working directory does not exist, fork fails).
execute_spawned(e) ==
    /\ execs[e].pc = "spawning"
    /\ \E ok \in BOOLEAN :
           execs' = [execs EXCEPT ![e].pc = IF ok THEN "streaming" ELSE "raised"]
    /\ UNCHANGED <<running_task, console, notifications, editor, config, file_saved,
                   saves, opened, starts_left, last_task>>
    /\ UNCHANGED <<ui_vars, plugin_vars, call_vars>>

\* app.py:447  what one line read from the pipe adds to the console.
forward(e, line) ==
    Append(console, Entry("output", e, execs[e].spec.name, rstrip(line), 0))

\* One turn of the read loop that got a line: decode, rstrip, write.
execute_readline(e) ==
    /\ execs[e].pc = "streaming"
    /\ Len(execs[e].emitted) < MaxLines
    /\ \E line \in RawLines(Len(execs[e].emitted) + 1) :
           IF decodable(line)
           THEN /\ execs' = [execs EXCEPT ![e].emitted = Append(@, line)]
                /\ console' = forward(e, line)
           ELSE /\ execs' = [execs EXCEPT ![e].emitted = Append(@, line),
                                          ![e].pc = "raised"]
                /\ console' = console
    /\ UNCHANGED <<running_task, notifications, editor, config, file_saved, saves,
                   opened, starts_left, last_task>>
    /\ UNCHANGED <<ui_vars, plugin_vars, call_vars>>

\* report_exit with the return code of the failure line lost.
report_exit_code_lost(e, return_code) ==
    IF return_code = 0
    THEN /\ console' = Append(console,
                Entry("success", e, execs[e].spec.name, <<>>, 0))
         /\ notifications' = notifications
    ELSE /\ console' = Append(console,
                Entry("failure", e, execs[e].spec.name, <<>>, 1))
         /\ notifications' =
                Append(notifications, Note("error", "task_failed", e, <<>>))

\* app.py:450-456  the line and the notification for a return code.
report_exit(e, return_code) ==
    IF return_code = 0
    THEN /\ console' = Append(console,
                Entry("success", e, execs[e].spec.name, <<>>, 0))
         /\ notifications' = notifications
    ELSE /\ console' = Append(console,
                Entry("failure", e, execs[e].spec.name, <<>>, return_code))
         /\ notifications' =
                Append(notifications, Note("error", "task_failed", e, <<>>))

\* readline returned b"" (end of file): the loop ends, process.wait() gives the
\* return code, and the success or the failure line is written.
execute_exit(e) ==
    /\ execs[e].pc = "streaming"
    /\ \E return_code \in ExitCodes :
           /\ execs' = [execs EXCEPT ![e].pc = "returned",
                                     ![e].child_exit = return_code]
           /\ report_exit(e, return_code)
    /\ UNCHANGED <<running_task, editor, config, file_saved, saves, opened,
                   starts_left, last_task>>
    /\ UNCHANGED <<ui_vars, plugin_vars, call_vars>>

\* The child of an execution that raised in the read loop is not waited for: it
\* exits on its own.
child_exits(e) ==
    /\ execs[e].pc = "raised"
    /\ execs[e].emitted # <<>>
    /\ execs[e].child_exit = NoCode
    /\ \E return_code \in ExitCodes :
           execs' = [execs EXCEPT ![e].child_exit = return_code]
    /\ UNCHANGED <<running_task, console, notifications, editor, config, file_saved,
                   saves, opened, starts_left, last_task>>
    /\ UNCHANGED <<ui_vars, plugin_vars, call_vars>>

\* asyncio.Task.cancel() on an unfinished execution: CancelledError is thrown
\* into the coroutine at its current await, which none of its code catches.
cancel_task(e) ==
    /\ ~done(e)
    /\ execs' = [execs EXCEPT ![e].pc = "cancelled"]
    /\ UNCHANGED <<running_task, console, notifications, editor, config, file_saved,
                   saves, opened, starts_left, last_task>>
    /\ UNCHANGED <<ui_vars, plugin_vars, call_vars>>

\* handle_task_completion that returns from the exception branch without
\* clearing the handle.
handle_task_completion_keeps_handle(e) ==
    /\ done(e)
    /\ ~execs[e].cb
    /\ execs' = [execs EXCEPT ![e].cb = TRUE]
    /\ IF execs[e].pc = "cancelled"
       THEN /\ console' = Append(console,
                   Entry("cancelled", e, execs[e].spec.name, <<>>, 0))
            /\ notifications' = notifications
            /\ running_task' = 0
       ELSE IF execs[e].pc = "raised"
       THEN /\ console' = Append(console,
                   Entry("task_failed", e, execs[e].spec.name, <<>>, 0))
            /\ notifications' =
                   Append(notifications, Note("error", "exception", e, <<>>))
            /\ running_task' = running_task
       ELSE /\ UNCHANGED <<console, notifications>>
            /\ running_task' = 0
    /\ UNCHANGED <<editor, config, file_saved, saves, opened, starts_left, last_task>>
    /\ UNCHANGED <<ui_vars, plugin_vars, call_vars>>

\* handle_task_completion without the task.cancelled() branch: a cancelled
\* execution is reported like one that raised.
handle_task_completion_no_cancel_branch(e) ==
    /\ done(e)
    /\ ~execs[e].cb
    /\ execs' = [execs EXCEPT ![e].cb = TRUE]
    /\ IF execs[e].pc \in {"raised", "cancelled"}
       THEN /\ console' = Append(console,
                   Entry("task_failed", e, execs[e].spec.name, <<>>, 0))
            /\ notifications' =
                   Append(notifications, Note("error", "exception", e, <<>>))
       ELSE UNCHANGED <<console, notifications>>
    /\ running_task' = 0
    /\ UNCHANGED <<editor, config, file_saved, saves, opened, starts_left, last_task>>
    /\ UNCHANGED <<ui_vars, plugin_vars, call_vars>>

\* handle_task_completion that never asks the task for its exception.
handle_task_completion_ignores_exception(e) ==
    /\ done(e)
    /\ ~execs[e].cb
    /\ execs' = [execs EXCEPT ![e].cb = TRUE]
    /\ running_task' = 0
    /\ IF execs[e].pc = "cancelled"
       THEN /\ console' = Append(console,
                   Entry("cancelled", e, execs[e].spec.name, <<>>, 0))
            /\ notifications' = notifications
       ELSE UNCHANGED <<console, notifications>>
    /\ UNCHANGED <<editor, config, file_saved, saves, opened, starts_left, last_task>>
    /\ UNCHANGED <<ui_vars, plugin_vars, call_vars>>

\* The done-callback, which the event loop runs some time after the execution
\* finished.
handle_task_completion(e) ==
    /\ done(e)
    /\ ~execs[e].cb
    /\ execs' = [execs EXCEPT ![e].cb = TRUE]
    /\ running_task' = 0
    /\ IF execs[e].pc = "cancelled"
       THEN /\ console' = Append(console,
                   Entry("cancelled", e, execs[e].spec.name, <<>>, 0))
            /\ notifications' = notifications
       ELSE IF execs[e].pc = "raised"
       THEN /\ console' = Append(console,
                   Entry("task_failed", e, execs[e].spec.name, <<>>, 0))
            /\ notifications' =
                   Append(notifications, Note("error", "exception", e, <<>>))
       ELSE UNCHANGED <<console, notifications>>
    /\ UNCHANGED <<editor, config, file_saved, saves, opened, starts_left, last_task>>
    /\ UNCHANGED <<ui_vars, plugin_vars, call_vars>>

\* The user types into the TextArea: text differs from _loaded_text.
edit_buffer ==
    /\ ~editor.dirty
    /\ editor' = [editor EXCEPT !.dirty = TRUE]
    /\ UNCHANGED <<running_task, execs, console, notifications, config, file_saved,
                   saves, opened, starts_left, last_task>>
    /\ UNCHANGED <<ui_vars, plugin_vars, call_vars>>

\* handle_file_selected for a regular file: EditorPane.load_file and "Opened".
handle_file_selected ==
    /\ opened < MaxOpens
    /\ opened' = opened + 1
    /\ editor' = [dirty |-> FALSE, has_path |-> TRUE]
    /\ console' = Append(console, Entry("opened", 0, "", <<>>, 0))
    /\ UNCHANGED <<running_task, execs, notifications, config, file_saved, saves,
                   starts_left, last_task>>
    /\ UNCHANGED <<ui_vars, plugin_vars, call_vars>>

\* handle_file_saved: the "Saved" line for one FileSaved message.
handle_file_saved ==
    /\ file_saved > 0
    /\ file_saved' = file_saved - 1
    /\ console' = Append(console, Entry("saved", 0, "", <<>>, 0))
    /\ UNCHANGED <<running_task, execs, notifications, editor, config, saves, opened,
                   starts_left, last_task>>
    /\ UNCHANGED <<ui_vars, plugin_vars, call_vars>>

(***************************************************************************)
(* The other actions of the application: saving, the workspace switch,     *)
(* the scaffold, the task list and the shortcuts.  A prompt (Save As) is   *)
(* answered within the action that opens it.                               *)
(***************************************************************************)
\* What the user can answer a Save As prompt with: a path, or nothing.
Prompted == {"path", "dismissed"}

\* EditorPane.save(target) for a target that is set: the write succeeds and
\* FileSaved is posted, or EditorError is raised.
save_written ==
    /\ editor' = [dirty |-> FALSE, has_path |-> TRUE]
    /\ file_saved' = file_saved + 1

\* DebIDEApp.action_save
action_save ==
    /\ actions_left > 0
    /\ actions_left' = actions_left - 1
    /\ saves' = saves + 1
    /\ \E ok \in BOOLEAN :
           IF editor.has_path /\ ok
           THEN /\ save_written
                /\ UNCHANGED notifications
           ELSE /\ notifications' =
                       Append(notifications, Note("error", "save_failed", 0, <<>>))
                /\ UNCHANGED <<editor, file_saved>>
    /\ UNCHANGED <<running_task, execs, console, config, opened, starts_left,
                   last_task, task_details, screen>>
    /\ UNCHANGED <<plugin_vars, call_vars>>

\* DebIDEApp.action_save_as
action_save_as ==
    /\ actions_left > 0
    /\ actions_left' = actions_left - 1
    /\ \E target \in Prompted, ok \in BOOLEAN :
           IF target = "dismissed"
           THEN UNCHANGED <<editor, file_saved, saves, notifications>>
           ELSE /\ saves' = saves + 1
                /\ IF ok
                   THEN /\ save_written
                        /\ UNCHANGED notifications
                   ELSE /\ notifications' =
                               Append(notifications,
                                      Note("error", "save_failed", 0, <<>>))
                        /\ UNCHANGED <<editor, file_saved>>
    /\ UNCHANGED <<running_task, execs, console, config, opened, starts_left,
                   last_task, task_details, screen>>
    /\ UNCHANGED <<plugin_vars, call_vars>>

\* DebIDEApp.action_save_all, with the one EditorPane the application has.
action_save_all ==
    /\ actions_left > 0
    /\ actions_left' = actions_left - 1
    /\ \E target \in Prompted, ok \in BOOLEAN :
           IF ~editor.dirty
           THEN /\ notifications' =
                       Append(notifications, Note("information", "all_saved", 0, <<>>))
                /\ UNCHANGED <<editor, file_saved, saves, console>>
           ELSE IF ~editor.has_path /\ target = "dismissed"
           THEN /\ notifications' =
                       Append(notifications, Note("warning", "skipped", 0, <<>>))
                /\ UNCHANGED <<editor, file_saved, saves, console>>
           ELSE /\ saves' = saves + 1
                /\ IF ok
                   THEN /\ save_written
                        /\ notifications' =
                               Append(notifications,
                                      Note("information", "saved", 0, <<>>))
                        /\ UNCHANGED console
                   ELSE /\ console' =
                               Append(console, Entry("save_failed", 0, "", <<>>, 0))
                        /\ notifications' =
                               Append(notifications,
                                      Note("error", "save_failed", 0, <<>>))
                        /\ UNCHANGED <<editor, file_saved>>
    /\ UNCHANGED <<running_task, execs, config, opened, starts_left, last_task,
                   task_details, screen>>
    /\ UNCHANGED <<plugin_vars, call_vars>>

\* DebIDEApp.action_switch_workspace: refused while the buffer is modified,
\* else the SwitchWorkspaceScreen is pushed.
action_switch_workspace ==
    /\ actions_left > 0
    /\ screen = "main"
    /\ actions_left' = actions_left - 1
    /\ IF editor.dirty
       THEN /\ notifications' =
                   Append(notifications, Note("warning", "unsaved_changes", 0, <<>>))
            /\ UNCHANGED screen
       ELSE /\ screen' = "switch_workspace"
            /\ UNCHANGED notifications
    /\ UNCHANGED <<running_task, execs, console, editor, config, file_saved, saves,
                   opened, starts_left, last_task, task_details>>
    /\ UNCHANGED <<plugin_vars, call_vars>>

\* The configurations load_config finds in the workspaces to switch to.
Workspaces ==
    { [autosave |-> FALSE, tasks |-> <<Lint, Build>>],
      [autosave |-> TRUE, tasks |-> <<Build>>] }

\* What the SwitchWorkspaceScreen is dismissed with: nothing, a path that
\* does not exist, a path that is no directory, a directory whose
\* configuration load_config rejects, or a workspace.  The configuration of
\* a workspace names one of its tasks as the default task (default_task is
\* its place in the list), or none (0).
Selections == {"none", "missing", "not_a_directory", "bad_config", "workspace"}

\* The callback of the screen that puts the running task aside with the old
\* workspace.
handle_workspace_selection_drops_task ==
    /\ screen = "switch_workspace"
    /\ screen' = "main"
    /\ \E target \in Selections, cfg \in Workspaces :
        \E default_task \in 0..Len(cfg.tasks) :
           CASE target = "none" ->
                    UNCHANGED <<notifications, console, config, editor, task_details,
                                running_task>>
             [] target = "workspace" ->
                    /\ config' = cfg
                    /\ editor' = [dirty |-> FALSE, has_path |-> FALSE]
                    /\ task_details' =
                           cfg.tasks[IF default_task = 0 THEN 1 ELSE default_task].name
                    /\ console' =
                           console
                               \o (IF default_task # 0
                                   THEN << Entry("default_task", 0, "", <<>>, 0) >>
                                   ELSE <<>>)
                               \o << Entry("switched", 0, "", <<>>, 0) >>
                    /\ running_task' = 0
                    /\ UNCHANGED notifications
             [] OTHER ->
                    /\ notifications' =
                           Append(notifications, Note("error", target, 0, <<>>))
                    /\ UNCHANGED <<console, config, editor, task_details, running_task>>
    /\ UNCHANGED <<execs, file_saved, saves, opened, starts_left, last_task,
                   actions_left>>
    /\ UNCHANGED <<plugin_vars, call_vars>>

\* DebIDEApp._handle_workspace_selection and, for a workspace whose
\* configuration loads, _apply_workspace.
handle_workspace_selection ==
    /\ screen = "switch_workspace"
    /\ screen' = "main"
    /\ \E target \in Selections, cfg \in Workspaces :
        \E default_task \in 0..Len(cfg.tasks) :
           CASE target = "none" ->
                    UNCHANGED <<notifications, console, config, editor, task_details,
                                running_task>>
             [] target = "workspace" ->
                    /\ config' = cfg
                    /\ editor' = [dirty |-> FALSE, has_path |-> FALSE]
                    /\ task_details' =
                           cfg.tasks[IF default_task = 0 THEN 1 ELSE default_task].name
                    /\ console' =
                           console
                               \o (IF default_task # 0
                                   THEN << Entry("default_task", 0, "", <<>>, 0) >>
                                   ELSE <<>>)
                               \o << Entry("switched", 0, "", <<>>, 0) >>
                    /\ UNCHANGED <<notifications, running_task>>
             [] OTHER ->
                    /\ notifications' =
                           Append(notifications, Note("error", target, 0, <<>>))
                    /\ UNCHANGED <<console, config, editor, task_details, running_task>>
    /\ UNCHANGED <<execs, file_saved, saves, opened, starts_left, last_task,
                   actions_left>>
    /\ UNCHANGED <<plugin_vars, call_vars>>

\* DebIDEApp.action_scaffold: the skeleton is written, or debian/ has the
\* files already.
action_scaffold ==
    /\ actions_left > 0
    /\ actions_left' = actions_left - 1
    /\ \E created \in BOOLEAN :
           IF created
           THEN /\ console' = Append(console, Entry("scaffold", 0, "", <<>>, 0))
                /\ notifications' =
                       Append(notifications, Note("information", "scaffold", 0, <<>>))
           ELSE /\ notifications' =
                       Append(notifications, Note("warning", "exists", 0, <<>>))
                /\ UNCHANGED console
    /\ UNCHANGED <<running_task, execs, editor, config, file_saved, saves, opened,
                   starts_left, last_task, task_details, screen>>
    /\ UNCHANGED <<plugin_vars, call_vars>>

\* DebIDEApp.handle_task_highlighted: the user moves to task t of the list.
handle_task_highlighted(t) ==
    /\ actions_left > 0
    /\ actions_left' = actions_left - 1
    /\ task_details # Tasks[t].name
    /\ task_details' = Tasks[t].name
    /\ UNCHANGED <<running_task, execs, console, notifications, editor, config,
                   file_saved, saves, opened, starts_left, last_task, screen>>
    /\ UNCHANGED <<plugin_vars, call_vars>>

\* DebIDEApp.action_show_shortcuts
action_show_shortcuts ==
    /\ actions_left > 0
    /\ actions_left' = actions_left - 1
    /\ console' = Append(console, Entry("shortcuts", 0, "", <<>>, 0))
    /\ UNCHANGED <<running_task, execs, notifications, editor, config, file_saved,
                   saves, opened, starts_left, last_task, task_details, screen>>
    /\ UNCHANGED <<plugin_vars, call_vars>>

(***************************************************************************)
(* The plugin manager: PluginManager and the PluginAPI handed to plugins.  *)
(*                                                                         *)
(* A callable of a plugin is described by what it does when called: a      *)
(* registration callable by the PluginAPI calls it makes (its script) and  *)
(* whether it raises afterwards, a task provider and an app hook by their  *)
(* behaviour.  "Raises" is an exception derived from Exception.            *)
(***************************************************************************)
\* Values plugins pass around: task mappings, and an object that is neither a
\* mapping, nor callable, nor iterable.
Mapping(name, command) == [kind |-> "mapping", name |-> name, command |-> command]
Junk == [kind |-> "junk"]
is_mapping(x) == x.kind = "mapping"

\* Task providers, by what a call does: raise, return None, return a list,
\* return a value that is not iterable, or return a generator that yields its
\* items and then raises.
Provider(behaviour, items) ==
    [kind |-> "provider", behaviour |-> behaviour, items |-> items]
\* App hooks, by what a call does: return, raise, log through the plugin's
\* API, register one more hook through it, or call dispatch_app_ready again.
Hook(id, behaviour) == [kind |-> "hook", id |-> id, behaviour |-> behaviour]
is_callable(x) == x.kind \in {"provider", "hook"}

\* A registration callable: the API calls it makes, then whether it raises.
Callable(script, raises) == [kind |-> "callable", script |-> script, raises |-> raises]
Op(op, arg) == [op |-> op, arg |-> arg]
Level(name) == [kind |-> "level", name |-> name]

\* What entry_point.load() gives: an object with an optional callable
\* "register" attribute, itself callable or not; or the load raises.
EntryPoint(name, load_ok, register, call) ==
    [name |-> name, load_ok |-> load_ok, register |-> register, call |-> call]
\* A "register" attribute whose lookup raises an exception other than
\* AttributeError: a property, or the __getattr__ of a module or a class.
AttributeRaises == [attribute_raises |-> TRUE]

Lint1 == Mapping("lint", "flake8")
Test1 == Mapping("test", "pytest")
Docs1 == Mapping("docs", "sphinx")

\* The plugins that can be installed.
Catalogue ==
    { EntryPoint("good", TRUE,
                 Some(Callable(<< Op("add_task", Lint1),
                                  Op("provide_tasks", Provider("items", <<Test1>>)),
                                  Op("on_app_ready", Hook("good", "return")),
                                  Op("log", Level("info")) >>, FALSE)),
                 None),
      EntryPoint("partial", TRUE,
                 Some(Callable(<< Op("add_task", Docs1),
                                  Op("provide_tasks", Provider("items", <<Lint1>>)),
                                  Op("log", Level("WARNING")),
                                  Op("on_app_ready", Hook("partial", "log")) >>, TRUE)),
                 None),
      EntryPoint("badarg", TRUE,
                 Some(Callable(<< Op("log", Level("error")),
                                  Op("add_task", Junk),
                                  Op("add_task", Docs1) >>, FALSE)),
                 None),
      EntryPoint("flaky", TRUE,
                 Some(Callable(<< Op("provide_tasks", Provider("raise", <<>>)),
                                  Op("on_app_ready", Hook("flaky", "raise")) >>, FALSE)),
                 None),
      EntryPoint("sloppy", TRUE,
                 Some(Callable(<< Op("provide_tasks", Provider("not_iterable", <<>>)) >>,
                               FALSE)),
                 None),
      EntryPoint("mixed", TRUE,
                 Some(Callable(<< Op("provide_tasks", Provider("none", <<>>)),
                                  Op("provide_tasks",
                                     Provider("items", <<Docs1, Junk, Test1>>)) >>,
                               FALSE)),
                 None),
      EntryPoint("lazy", TRUE,
                 Some(Callable(<< Op("provide_tasks", Provider("generator", <<Docs1>>)) >>,
                               FALSE)),
                 None),
      EntryPoint("chatty", TRUE,
                 Some(Callable(<< Op("log", Level("debug")),
                                  Op("log", Level("Error")),
                                  Op("log", Junk) >>, FALSE)),
                 None),
      EntryPoint("inert", TRUE, None, None),
      EntryPoint("unloadable", FALSE, None, None),
      EntryPoint("hostile", TRUE, AttributeRaises, None),
      EntryPoint("both", TRUE,
                 Some(Callable(<< Op("add_task", Test1) >>, FALSE)),
                 Some(Callable(<< Op("add_task", Junk) >>, FALSE))),
      EntryPoint("function", TRUE,
                 None,
                 Some(Callable(<< Op("add_task", Lint1),
                                  Op("log", Level("info")) >>, FALSE))),
      EntryPoint("plain", TRUE,
                 None,
                 Some(Callable(<< Op("on_app_ready", Hook("plain", "register")),
                                  Op("on_app_ready", Hook("again", "dispatch")),
                                  Op("provide_tasks", Junk) >>, FALSE))) }

\* Sequences over S of length at most n.
SeqsUpTo(S, n) == UNION { [1..k -> S] : k \in 0..n }

\* The manager's fields as one value, for the operators below.
Manager ==
    [loaded_plugins |-> loaded_plugins, messages |-> messages,
     static_tasks |-> static_tasks, task_providers |-> task_providers,
     app_hooks |-> app_hooks, dispatched |-> app_hooks_dispatched,
     hook_calls |-> hook_calls]

\* The manager's fields after a call that left them as m.
Becomes(m) ==
    /\ loaded_plugins' = m.loaded_plugins
    /\ messages' = m.messages
    /\ static_tasks' = m.static_tasks
    /\ task_providers' = m.task_providers
    /\ app_hooks' = m.app_hooks
    /\ app_hooks_dispatched' = m.dispatched
    /\ hook_calls' = m.hook_calls

\* str.lower() on the level names plugins pass.
lower(level) ==
    CASE level = "WARNING" -> "warning"
      [] level = "Error" -> "error"
      [] level = "INFO" -> "info"
      [] OTHER -> level

\* _add_message that compares the level as it was passed.
add_message_case_sensitive(m, source, text, level) ==
    LET kept == IF level \in {"info", "warning", "error"} THEN level ELSE "info"
    IN [m EXCEPT !.messages =
            Append(@, [source |-> source, level |-> kept, text |-> text])]

\* PluginManager._add_message
add_message(m, source, text, level) ==
    LET lowered == lower(level)
        kept == IF lowered \in {"info", "warning", "error"} THEN lowered ELSE "info"
    IN [m EXCEPT !.messages =
            Append(@, [source |-> source, level |-> kept, text |-> text])]

\* The result of a call into the manager from plugin code: the manager
\* afterwards and whether the call raised.
Ok(m) == [m |-> m, raised |-> FALSE]
Raised(m) == [m |-> m, raised |-> TRUE]

\* PluginManager._register_task
register_task(m, source, mapping) ==
    IF ~is_mapping(mapping)
    THEN Raised(m)
    ELSE Ok([m EXCEPT !.static_tasks = Append(@, <<source, mapping>>)])

\* PluginManager._register_task_provider
register_task_provider(m, source, provider) ==
    IF ~is_callable(provider)
    THEN Raised(m)
    ELSE Ok([m EXCEPT !.task_providers = Append(@, <<source, provider>>)])

\* PluginManager._register_app_hook
register_app_hook(m, source, callback) ==
    IF ~is_callable(callback)
    THEN Raised(m)
    ELSE Ok([m EXCEPT !.app_hooks = Append(@, <<source, callback>>)])

\* One call of the PluginAPI scoped to source.
api_call(m, source, op) ==
    CASE op.op = "add_task" -> register_task(m, source, op.arg)
      [] op.op = "provide_tasks" -> register_task_provider(m, source, op.arg)
      [] op.op = "on_app_ready" -> register_app_hook(m, source, op.arg)
      [] op.op = "log" ->
             \* level.lower() on a value that is no string raises AttributeError
             IF op.arg.kind # "level"
             THEN Raised(m)
             ELSE Ok(add_message(m, source, "plugin says", op.arg.name))

\* register_callable(api): the calls of the script in order; an exception from
\* a call, which the plugin does not catch, ends it.
RECURSIVE run_script(_, _, _, _)
run_script(m, source, script, raises) ==
    IF script = <<>>
    THEN IF raises THEN Raised(m) ELSE Ok(m)
    ELSE LET r == api_call(m, source, Head(script))
         IN IF r.raised THEN r ELSE run_script(r.m, source, Tail(script), raises)

\* The choice that prefers the object itself to its "register" attribute.
register_callable_prefers_object(plugin_obj) ==
    IF plugin_obj.call # None
    THEN plugin_obj.call
    ELSE plugin_obj.register

\* plugins.py:144-149  the registration callable of a plugin object.
register_callable(plugin_obj) ==
    IF plugin_obj.register # None
    THEN plugin_obj.register
    ELSE plugin_obj.call

\* _activate_plugin whose exception handler does not return.
activate_plugin_falls_through(m, plugin_obj, source) ==
    IF plugin_obj.register = AttributeRaises
    THEN Raised(m)
    ELSE
    LET callable == register_callable(plugin_obj)
    IN IF callable = None
       THEN Ok(add_message(m, source, "no callable entry point", "warning"))
       ELSE LET r == run_script(m, source, callable.val.script, callable.val.raises)
                logged == IF r.raised
                          THEN add_message(r.m, source, "raised during registration",
                                           "error")
                          ELSE r.m
            IN Ok(add_message([logged EXCEPT !.loaded_plugins = Append(@, source)],
                              source, "Registered plugin", "info"))

\* _activate_plugin that undoes what the callable registered when it raises.
activate_plugin_rolls_back(m, plugin_obj, source) ==
    IF plugin_obj.register = AttributeRaises
    THEN Raised(m)
    ELSE
    LET callable == register_callable(plugin_obj)
    IN IF callable = None
       THEN Ok(add_message(m, source, "no callable entry point", "warning"))
       ELSE LET r == run_script(m, source, callable.val.script, callable.val.raises)
            IN IF r.raised
               THEN Ok(add_message(m, source, "raised during registration", "error"))
               ELSE Ok(add_message([r.m EXCEPT !.loaded_plugins = Append(@, source)],
                                   source, "Registered plugin", "info"))

\* PluginManager._activate_plugin: the manager afterwards and whether an
\* exception left it.  The getattr for "register" is outside the try.
activate_plugin(m, plugin_obj, source) ==
    IF plugin_obj.register = AttributeRaises
    THEN Raised(m)
    ELSE
    LET callable == register_callable(plugin_obj)
    IN IF callable = None
       THEN Ok(add_message(m, source, "no callable entry point", "warning"))
       ELSE LET r == run_script(m, source, callable.val.script, callable.val.raises)
            IN IF r.raised
               THEN Ok(add_message(r.m, source, "raised during registration", "error"))
               ELSE Ok(add_message([r.m EXCEPT !.loaded_plugins = Append(@, source)],
                                   source, "Registered plugin", "info"))

\* plugins.py:86-95  one round of the loop of discover.
discover_one(m, entry_point) ==
    IF ~entry_point.load_ok
    THEN Ok(add_message(m, entry_point.name, "Failed to import plugin", "error"))
    ELSE activate_plugin(m, entry_point, entry_point.name)

\* plugins.py:112-120  the loop over the items a provider returned.
RECURSIVE take_items(_, _, _, _)
\* The item loop putting each mapping in front of the tasks so far.
take_items_prepends(m, source, items, tasks) ==
    IF items = <<>>
    THEN [m |-> m, tasks |-> tasks]
    ELSE IF ~is_mapping(Head(items))
         THEN take_items(add_message(m, source, "non-mapping item", "error"),
                         source, Tail(items), tasks)
         ELSE take_items(m, source, Tail(items), <<Head(items)>> \o tasks)

take_items(m, source, items, tasks) ==
    IF items = <<>>
    THEN [m |-> m, tasks |-> tasks]
    ELSE IF ~is_mapping(Head(items))
         THEN take_items(add_message(m, source, "non-mapping item", "error"),
                         source, Tail(items), tasks)
         ELSE take_items(m, source, Tail(items), Append(tasks, Head(items)))

\* plugins.py:100-120  the loop over the providers, from the k-th on.  The
\* result is the manager afterwards, the tasks, the providers invoked, and
\* whether an exception left collect_tasks: iterating a value that is not
\* iterable raises, and so does a generator after its last item; neither is
\* inside the try.
RECURSIVE collect_from(_, _, _, _)
\* The provider loop that reports every failure under the source of the
\* first provider.
collect_from_first_source(m, k, tasks, invoked) ==
    IF k > Len(m.task_providers)
    THEN [m |-> m, tasks |-> tasks, invoked |-> invoked, raised |-> FALSE]
    ELSE LET source == m.task_providers[1][1]
             provider == m.task_providers[k][2]
             called == Append(invoked, k)
         IN CASE provider.behaviour = "raise" ->
                    collect_from(add_message(m, source, "Task provider raised", "error"),
                                 k + 1, tasks, called)
              [] provider.behaviour = "none" ->
                    collect_from(m, k + 1, tasks, called)
              [] provider.behaviour = "not_iterable" ->
                    [m |-> m, tasks |-> <<>>, invoked |-> called, raised |-> TRUE]
              [] provider.behaviour = "generator" ->
                    [m |-> take_items(m, source, provider.items, tasks).m,
                     tasks |-> <<>>, invoked |-> called, raised |-> TRUE]
              [] OTHER ->
                    LET r == take_items(m, source, provider.items, tasks)
                    IN collect_from(r.m, k + 1, r.tasks, called)

collect_from(m, k, tasks, invoked) ==
    IF k > Len(m.task_providers)
    THEN [m |-> m, tasks |-> tasks, invoked |-> invoked, raised |-> FALSE]
    ELSE LET source == m.task_providers[k][1]
             provider == m.task_providers[k][2]
             called == Append(invoked, k)
         IN CASE provider.behaviour = "raise" ->
                    collect_from(add_message(m, source, "Task provider raised", "error"),
                                 k + 1, tasks, called)
              [] provider.behaviour = "none" ->
                    collect_from(m, k + 1, tasks, called)
              [] provider.behaviour = "not_iterable" ->
                    [m |-> m, tasks |-> <<>>, invoked |-> called, raised |-> TRUE]
              [] provider.behaviour = "generator" ->
                    [m |-> take_items(m, source, provider.items, tasks).m,
                     tasks |-> <<>>, invoked |-> called, raised |-> TRUE]
              [] OTHER ->
                    LET r == take_items(m, source, provider.items, tasks)
                    IN collect_from(r.m, k + 1, r.tasks, called)

\* PluginManager.collect_tasks
collect_tasks_result(m) ==
    collect_from(m, 1, [i \in 1..Len(m.static_tasks) |-> m.static_tasks[i][2]], <<>>)

\* PluginManager.dispatch_app_ready and the hooks it calls.  A hook reaches the
\* manager through the PluginAPI its plugin kept (log, on_app_ready) or through
\* the application (dispatch_app_ready).
RECURSIVE dispatch(_)
RECURSIVE run_hooks(_, _)
call_hook(m, source, hook) ==
    LET called == [m EXCEPT !.hook_calls = Append(@, hook.id)]
    IN CASE hook.behaviour = "raise" -> Raised(called)
         [] hook.behaviour = "log" -> Ok(add_message(called, source, "plugin says", "info"))
         [] hook.behaviour = "register" ->
                register_app_hook(called, source, Hook("late", "return"))
         [] hook.behaviour = "dispatch" -> Ok(dispatch(called))
         [] OTHER -> Ok(called)

\* The loop of dispatch_app_ready over the list itself, not a copy of it: a
\* hook appended while the loop runs is reached by the loop.
run_hooks_live_list(m, hooks) ==
    IF hooks = <<>>
    THEN m
    ELSE LET source == Head(hooks)[1]
             r == call_hook(m, source, Head(hooks)[2])
             appended == SubSeq(r.m.app_hooks, Len(m.app_hooks) + 1,
                                Len(r.m.app_hooks))
         IN IF r.raised
            THEN run_hooks(add_message(r.m, source, "App hook raised", "error"),
                           Tail(hooks) \o appended)
            ELSE run_hooks(r.m, Tail(hooks) \o appended)

\* The loop of dispatch_app_ready with the try around the whole loop.
run_hooks_stops_on_raise(m, hooks) ==
    IF hooks = <<>>
    THEN m
    ELSE LET source == Head(hooks)[1]
             r == call_hook(m, source, Head(hooks)[2])
         IN IF r.raised
            THEN add_message(r.m, source, "App hook raised", "error")
            ELSE run_hooks(r.m, Tail(hooks))

run_hooks(m, hooks) ==
    IF hooks = <<>>
    THEN m
    ELSE LET source == Head(hooks)[1]
             r == call_hook(m, source, Head(hooks)[2])
         IN IF r.raised
            THEN run_hooks(add_message(r.m, source, "App hook raised", "error"),
                           Tail(hooks))
            ELSE run_hooks(r.m, Tail(hooks))

\* dispatch_app_ready that lowers the flag again when the loop is over.
dispatch_resets_flag(m) ==
    IF m.dispatched
    THEN m
    ELSE [run_hooks([m EXCEPT !.dispatched = TRUE], m.app_hooks)
              EXCEPT !.dispatched = FALSE]

dispatch(m) ==
    IF m.dispatched
    THEN m
    ELSE run_hooks([m EXCEPT !.dispatched = TRUE], m.app_hooks)

NotCalled == [outcome |-> "not called", tasks |-> <<>>, invoked |-> <<>>]

\* A new PluginManager, on a system with the entry points eps installed.
InitManager(eps, n) ==
    /\ entry_points = eps
    /\ loaded_plugins = <<>>
    /\ messages = <<>>
    /\ static_tasks = <<>>
    /\ task_providers = <<>>
    /\ app_hooks = <<>>
    /\ app_hooks_dispatched = FALSE
    /\ hook_calls = <<>>
    /\ position = 0
    /\ discovered = FALSE
    /\ last_call = "none"
    /\ dispatch_calls = 0
    /\ collected = NotCalled
    /\ returned = <<>>
    /\ calls_left = n
    /\ heap = <<>>

\* PluginManager.discover, called by main: one round of its loop.  An
\* exception that leaves the round leaves discover and main.
discover_entry ==
    /\ ~discovered
    /\ last_call # "discover raised"
    /\ position < Len(entry_points)
    /\ LET r == discover_one(Manager, entry_points[position + 1])
       IN /\ Becomes(r.m)
          /\ position' = IF r.raised THEN position ELSE position + 1
          /\ last_call' = IF r.raised THEN "discover raised" ELSE last_call
    /\ UNCHANGED <<dispatch_calls, entry_points, discovered, collected, returned,
                   calls_left>>
    /\ UNCHANGED <<heap, runner_vars, call_vars>>

\* PluginManager.discover: the loop is over and discover returns.
discover_return ==
    /\ ~discovered
    /\ position = Len(entry_points)
    /\ discovered' = TRUE
    /\ UNCHANGED <<dispatch_calls, entry_points, loaded_plugins, messages, static_tasks,
                   task_providers, app_hooks, app_hooks_dispatched, position,
                   last_call, collected, returned, hook_calls, calls_left>>
    /\ UNCHANGED <<heap, runner_vars, call_vars>>

\* PluginManager.collect_tasks(workspace), called by the host.
collect_tasks ==
    /\ discovered
    /\ calls_left > 0
    /\ calls_left' = calls_left - 1
    /\ last_call' = "collect_tasks"
    /\ LET r == collect_tasks_result(Manager)
       IN /\ Becomes(r.m)
          /\ collected' = [outcome |-> IF r.raised THEN "raised" ELSE "returned",
                           tasks |-> r.tasks, invoked |-> r.invoked]
    /\ UNCHANGED <<dispatch_calls, entry_points, position, discovered, returned>>
    /\ UNCHANGED <<heap, runner_vars, call_vars>>

\* PluginManager.dispatch_app_ready(app), called by the host.
dispatch_app_ready ==
    /\ discovered
    /\ calls_left > 0
    /\ calls_left' = calls_left - 1
    /\ last_call' = "dispatch_app_ready"
    /\ dispatch_calls' = dispatch_calls + 1
    /\ Becomes(dispatch(Manager))
    /\ UNCHANGED <<entry_points, position, discovered, collected, returned>>
    /\ UNCHANGED <<heap, runner_vars, call_vars>>

\* consume_messages that returns the list without replacing it.
consume_messages_keeps_queue ==
    /\ discovered
    /\ calls_left > 0
    /\ calls_left' = calls_left - 1
    /\ last_call' = "consume_messages"
    /\ returned' = messages
    /\ UNCHANGED <<dispatch_calls, entry_points, loaded_plugins, messages, static_tasks,
                   task_providers, app_hooks, app_hooks_dispatched, position,
                   discovered, collected, hook_calls>>
    /\ UNCHANGED <<heap, runner_vars, call_vars>>

\* PluginManager.consume_messages(), called by the host.
consume_messages ==
    /\ discovered
    /\ calls_left > 0
    /\ calls_left' = calls_left - 1
    /\ last_call' = "consume_messages"
    /\ returned' = messages
    /\ messages' = <<>>
    /\ UNCHANGED <<dispatch_calls, entry_points, loaded_plugins, static_tasks, task_providers,
                   app_hooks, app_hooks_dispatched, position, discovered,
                   collected, hook_calls>>
    /\ UNCHANGED <<heap, runner_vars, call_vars>>

(***************************************************************************)
(* Configuration: coerce_tasks, load_config and the start of main.         *)
(*                                                                         *)
(* The values of a raw mapping are Python values as YAML gives them: a key *)
(* may be absent, and its value may be None, a string (a sequence of       *)
(* characters), a dict or a list.                                          *)
(***************************************************************************)
Absent == [kind |-> "absent"]
PyNone == [kind |-> "none"]
Str(chars) == [kind |-> "str", chars |-> chars]
Dict(items) == [kind |-> "dict", items |-> items]
List(items) == [kind |-> "list", items |-> items]
\* A key of a dict with its value.
Item(key, value) == [kind |-> "item", key |-> key, value |-> value]

\* str(value)
py_str(value) ==
    CASE value.kind = "str" -> value.chars
      [] value.kind = "none" -> <<"N", "o", "n", "e">>
      [] value.kind = "dict" /\ value.items = <<>> -> <<"{", "}">>
      [] value.kind = "list" /\ value.items = <<>> -> <<"[", "]">>
      [] OTHER -> <<"?">>

\* bool(value)
py_bool(value) ==
    CASE value.kind = "none" -> FALSE
      [] value.kind = "str" -> value.chars # <<>>
      [] OTHER -> value.items # <<>>

\* item.get(key, default) and item.get(key)
get(item, key, default) == IF item[key].kind = "absent" THEN default ELSE item[key]

\* A raw task mapping with the keys name, command and env.
RawTask(name, command, env) == [name |-> name, command |-> command, env |-> env]

TaskSpec(name, command, env) ==
    [name |-> name, command |-> command, description |-> <<>>,
     working_dir |-> PyNone, env |-> env]

Returned(value) == [outcome |-> "returned", value |-> value]
Raises(error) == [outcome |-> "raised", error |-> error]

\* tasks.py:36-64  the loop of coerce_tasks over the items left.
RECURSIVE coerce_from(_, _, _)
\* The loop in which a mapping with a name already seen takes the place of the
\* earlier task of that name.
coerce_from_overrides(items, tasks, seen) ==
    IF items = <<>>
    THEN Returned(tasks)
    ELSE LET item == Head(items)
             name == strip(py_str(get(item, "name", Str(<<>>))))
             command == strip(py_str(get(item, "command", Str(<<>>))))
             found == get(item, "env", PyNone)
             env_mapping == IF py_bool(found) THEN found ELSE Dict(<<>>)
             others == SelectSeq(tasks, LAMBDA t : t.name # name)
         IN CASE name = <<>> -> Raises("TaskConfigurationError")
              [] name # <<>> /\ command = <<>> -> Raises("TaskConfigurationError")
              [] OTHER ->
                     IF env_mapping.kind # "dict"
                     THEN Raises("TaskConfigurationError")
                     ELSE coerce_from(Tail(items),
                                      Append(others,
                                             TaskSpec(name, command, env_mapping.items)),
                                      seen \cup {name})
coerce_from(items, tasks, seen) ==
    IF items = <<>>
    THEN Returned(tasks)
    ELSE LET item == Head(items)
             name == strip(py_str(get(item, "name", Str(<<>>))))
             command == strip(py_str(get(item, "command", Str(<<>>))))
             found == get(item, "env", PyNone)
             env_mapping == IF py_bool(found) THEN found ELSE Dict(<<>>)
         IN CASE name = <<>> -> Raises("TaskConfigurationError")
              [] name # <<>> /\ command = <<>> -> Raises("TaskConfigurationError")
              [] name # <<>> /\ command # <<>> /\ name \in seen ->
                     Raises("TaskConfigurationError")
              [] OTHER ->
                     IF env_mapping.kind # "dict"
                     THEN Raises("TaskConfigurationError")
                     ELSE coerce_from(Tail(items),
                                      Append(tasks,
                                             TaskSpec(name, command, env_mapping.items)),
                                      seen \cup {name})

\* coerce_tasks(items)
coerce_tasks(items) == coerce_from(items, <<>>, {})

\* The built-in tasks of resources/default_tasks.yaml.
DefaultTasks == << RawTask(Str(<<"b">>), Str(<<"a">>), Absent) >>

\* A configuration file of the workspace, or none.
NoFile == [exists |-> FALSE]
File(tasks, autosave, default_task) ==
    [exists |-> TRUE, tasks |-> tasks, autosave |-> autosave,
     default_task |-> default_task]

\* config.py:43-49
load_user_tasks(config_mapping) ==
    CASE config_mapping.tasks.kind \in {"absent", "none"} -> Returned(<<>>)
      [] config_mapping.tasks.kind = "list" -> Returned(config_mapping.tasks.items)
      [] OTHER -> Raises("TaskConfigurationError")

\* load_config(workspace, override_config), with the configuration file found
\* for the workspace.
load_config(file) ==
    LET user == IF file.exists THEN load_user_tasks(file) ELSE Returned(<<>>)
        autosave == file.exists /\ file.autosave
        default_task == IF file.exists /\ file.default_task.kind # "absent"
                        THEN py_str(file.default_task)
                        ELSE <<>>
    IN IF user.outcome = "raised"
       THEN user
       ELSE LET coerced == coerce_tasks(DefaultTasks \o user.value)
            IN CASE coerced.outcome = "raised" -> coerced
                 [] coerced.outcome = "returned"
                        /\ default_task # <<>>
                        /\ \A i \in 1..Len(coerced.value) :
                               coerced.value[i].name # default_task ->
                        Raises("TaskConfigurationError")
                 [] OTHER ->
                        Returned([tasks |-> coerced.value, autosave |-> autosave,
                                  default_task |-> default_task])

\* config.py:52  the parameters of load_config.
LoadConfigParameters == {"workspace", "override_config"}

\* A call load_config(workspace, config_path, **keywords): a keyword that is
\* no parameter is a TypeError.
call_load_config(file, keywords) ==
    IF ~(keywords \subseteq LoadConfigParameters)
    THEN Raises("TypeError")
    ELSE load_config(file)

\* The raw task mappings the calls are made with.
RawNames ==
    {Absent, PyNone, Str(<<" ">>), Str(<<"c">>), Str(<<" ", "c">>), Str(<<"b">>)}
RawCommands == {Absent, Str(<<" ">>), Str(<<"a">>)}
RawEnvs == {Absent, Dict(<< Item("K", "v") >>), List(<<>>), List(<< Str(<<"x">>) >>)}
RawItems ==
    {RawTask(n, c, e) : n \in RawNames, c \in RawCommands, e \in RawEnvs}

ConfigFiles ==
    {NoFile} \cup
    {File(t, a, d) :
        t \in {Absent, Str(<<"x">>)}
              \cup {List(items) : items \in SeqsUpTo(RawItems, MaxFileTasks)},
        a \in BOOLEAN,
        d \in {Absent, Str(<<"b">>), Str(<<"z">>)}}

\* The command texts the pre-flight checker is called with: a first segment,
\* an operator and a trailing segment.
CommandChars == {"a", "=", " ", "&", "'"}
FirstSegments ==
    SeqsUpTo(CommandChars, MaxCommandLen)
        \cup { <<"F", "=", "1", " ", "x">>,
               <<"=", "a", " ", "a">>,
               <<"a", " ", "a", "=", "a">>,
               <<"a", "=", "'", " ", "'", " ", "=", " ", "x">>,
               <<"\\", "'", "a", "=", "a", " ", "a">>,
               <<"\"", "'", "a", "=", "a", "\"", " ", "a">> }
TrailingSegments == { <<>>, <<"x">>, <<" ", "x", ";", "'">> }

\* A caller calls _extract_primary_command(command).
extract_primary_command_call ==
    /\ call_args.fn = "_extract_primary_command"
    /\ call_result.outcome = "not called"
    /\ call_result' = Returned(extract_primary_command(call_args.command))
    /\ UNCHANGED <<call_args, runner_vars, plugin_vars>>

\* dict.update(items): a dict is a function from its keys; each entry in turn
\* sets its key.
RECURSIVE update(_, _)
update(dict, items) ==
    IF items = <<>>
    THEN dict
    ELSE update([k \in DOMAIN dict \cup {Head(items).key} |->
                    IF k = Head(items).key THEN Head(items).value ELSE dict[k]],
                Tail(items))

\* The environment that is the other way round: the inherited value wins.
spawn_environment_inherited_wins(environ, task_env) ==
    LET overlaid == update(<<>>, task_env)
    IN [k \in DOMAIN environ \cup DOMAIN overlaid |->
           IF k \in DOMAIN environ THEN environ[k] ELSE overlaid[k]]

\* app.py:431-432  env = os.environ.copy(); env.update(task.env): the env
\* argument of create_subprocess_shell.
spawn_environment(environ, task_env) == update(environ, task_env)

\* The process environments and task envs the runner is started with.
EnvKeys == {"PATH", "K", "L"}
EnvValues == {"u", "v"}
Environs == UNION { [keys -> EnvValues] : keys \in SUBSET EnvKeys }
TaskEnvs ==
    { env \in SeqsUpTo({Item(k, v) : k \in EnvKeys, v \in EnvValues}, MaxEnvLen) :
          \A i, j \in 1..Len(env) : i # j => env[i].key # env[j].key }

\* _execute_task builds the environment of the child process.
spawn_environment_call ==
    /\ call_args.fn = "spawn_environment"
    /\ call_result.outcome = "not called"
    /\ call_result' = Returned(spawn_environment(call_args.environ, call_args.env))
    /\ UNCHANGED <<call_args, runner_vars, plugin_vars>>

\* A caller calls coerce_tasks(items).
coerce_tasks_call ==
    /\ call_args.fn = "coerce_tasks"
    /\ call_result.outcome = "not called"
    /\ call_result' = coerce_tasks(call_args.items)
    /\ UNCHANGED <<call_args, runner_vars, plugin_vars>>

\* A caller calls load_config(workspace).
load_config_call ==
    /\ call_args.fn = "load_config"
    /\ call_result.outcome = "not called"
    /\ call_result' = call_load_config(call_args.file, {})
    /\ UNCHANGED <<call_args, runner_vars, plugin_vars>>

\* cli.py:107  main, after discover:
\* load_config(workspace, config_path, plugin_manager=plugin_manager)
main_load_config ==
    /\ call_args.fn = "main"
    /\ discovered
    /\ call_result.outcome = "not called"
    /\ call_result' = call_load_config(call_args.file, {"plugin_manager"})
    /\ UNCHANGED <<call_args, runner_vars, plugin_vars>>

(***************************************************************************)
(* The identity of the task mappings.  A plugin passes add_task a mapping  *)
(* it built and keeps; collect_tasks returns a list its caller keeps.  An  *)
(* object is a dict or a list on the heap; a value is a string or a        *)
(* reference to an object.  Here _static_tasks holds <<source, reference>>. *)
(***************************************************************************)
Ref(id) == [kind |-> "ref", id |-> id]

\* dict(mapping): a new dict with the items of mapping; the values are the
\* same objects.
dict_copy(mapping) == Dict(mapping.items)

\* mapping[key] = value
setitem(mapping, key, value) ==
    IF \E k \in 1..Len(mapping.items) : mapping.items[k].key = key
    THEN Dict([k \in 1..Len(mapping.items) |->
                  IF mapping.items[k].key = key
                  THEN Item(key, value)
                  ELSE mapping.items[k]])
    ELSE Dict(Append(mapping.items, Item(key, value)))

\* What a value reads as: every reference replaced by the object it names.
RECURSIVE value_of(_, _)
value_of(objects, v) ==
    CASE v.kind = "ref" -> value_of(objects, objects[v.id])
      [] v.kind = "dict" ->
             Dict([k \in 1..Len(v.items) |->
                      Item(v.items[k].key, value_of(objects, v.items[k].value))])
      [] v.kind = "list" ->
             List([k \in 1..Len(v.items) |-> value_of(objects, v.items[k])])
      [] OTHER -> v

\* The objects only the manager has a reference to: the dicts in _static_tasks.
Private == {static_tasks[i][2].id : i \in 1..Len(static_tasks)}

\* Plugin code builds a task mapping, with or without an env dict, and calls
\* api.add_task(mapping); _register_task stores (source, dict(mapping)).
add_task_call ==
    /\ Len(heap) + 3 <= MaxObjects
    /\ \E command \in {<<"c">>, <<"d">>}, with_env \in BOOLEAN :
           LET n == Len(heap)
               env == Dict(<< Item("A", Str(<<"1">>)) >>)
               plain == << Item("name", Str(<<"t">>)), Item("command", Str(command)) >>
               mapping == IF with_env
                          THEN Dict(Append(plain, Item("env", Ref(n + 1))))
                          ELSE Dict(plain)
               built == IF with_env THEN <<env, mapping>> ELSE <<mapping>>
           IN /\ heap' = heap \o built \o <<dict_copy(mapping)>>
              /\ static_tasks' = Append(static_tasks, <<"p", Ref(Len(built) + n + 1)>>)
    /\ call_result' = Returned(PyNone)
    /\ UNCHANGED <<entry_points, loaded_plugins, messages, task_providers, app_hooks,
                   app_hooks_dispatched, position, discovered, last_call, collected,
                   returned, hook_calls, dispatch_calls, calls_left>>
    /\ UNCHANGED <<call_args, runner_vars>>

\* plugins.py:99,121  collect_tasks on a manager without providers: a new list
\* of dict(mapping) for each static task.
collect_tasks_call ==
    /\ static_tasks # <<>>
    /\ Len(heap) + Len(static_tasks) + 1 <= MaxObjects
    /\ LET n == Len(heap)
           copies == [i \in 1..Len(static_tasks) |->
                         dict_copy(heap[static_tasks[i][2].id])]
           tasks == List([i \in 1..Len(copies) |-> Ref(n + i)])
       IN /\ heap' = heap \o copies \o <<tasks>>
          /\ call_result' = Returned(Ref(n + Len(copies) + 1))
    /\ UNCHANGED <<entry_points, loaded_plugins, messages, static_tasks, task_providers,
                   app_hooks, app_hooks_dispatched, position, discovered, last_call,
                   collected, returned, hook_calls, dispatch_calls, calls_left>>
    /\ UNCHANGED <<call_args, runner_vars>>

\* Code outside the manager assigns to a key of a dict it can reach: the
\* mapping a plugin passed, its env, a mapping of a returned list, its env.
dict_setitem(id) ==
    /\ id \notin Private
    /\ heap[id].kind = "dict"
    /\ \E k \in 1..Len(heap[id].items) :
           /\ heap[id].items[k].value.kind = "str"
           /\ heap[id].items[k].value # Str(<<"x">>)
           /\ heap' = [heap EXCEPT ![id] = setitem(@, @.items[k].key, Str(<<"x">>))]
    /\ UNCHANGED <<entry_points, loaded_plugins, messages, static_tasks, task_providers,
                   app_hooks, app_hooks_dispatched, position, discovered, last_call,
                   collected, returned, hook_calls, dispatch_calls, calls_left>>
    /\ UNCHANGED <<runner_vars, call_vars>>

\* The caller of collect_tasks removes the first task of the list it got.
list_pop(id) ==
    /\ heap[id].kind = "list"
    /\ heap[id].items # <<>>
    /\ heap' = [heap EXCEPT ![id] = List(Tail(@.items))]
    /\ UNCHANGED <<entry_points, loaded_plugins, messages, static_tasks, task_providers,
                   app_hooks, app_hooks_dispatched, position, discovered, last_call,
                   collected, returned, hook_calls, dispatch_calls, calls_left>>
    /\ UNCHANGED <<runner_vars, call_vars>>

vars == <<runner_vars, plugin_vars, call_vars>>

\* The steps of the executions and their callbacks.
NextExecution ==
    \/ \E e \in ExecIds : execute_begin(e)
    \/ \E e \in ExecIds : execute_spawned(e)
    \/ \E e \in ExecIds : execute_readline(e)
    \/ \E e \in ExecIds : execute_exit(e)
    \/ \E e \in ExecIds : child_exits(e)
    \/ \E e \in ExecIds : cancel_task(e)
    \/ \E e \in ExecIds : handle_task_completion(e)

NextRunner ==
    \/ \E t \in TaskIds : start_task(t)
    \/ NextExecution

\* The runner with autosave off and one task whose executable is installed,
\* on a system without plugins.
InitRunner ==
    /\ InitApp([autosave |-> FALSE, tasks |-> <<Build>>], MaxStarts)
    /\ InitManager(<<>>, 0)
    /\ NoCall
SpecRunner == InitRunner /\ [][NextRunner]_vars

\* The same, for a run long enough for three executions.
InitRace ==
    /\ InitApp([autosave |-> FALSE, tasks |-> <<Build>>], MaxRaceStarts)
    /\ InitManager(<<>>, 0)
    /\ NoCall
SpecRace == InitRace /\ [][NextRunner]_vars

\* The runner under a fair event loop: a coroutine that can run is run, a
\* done-callback that is scheduled is called, and the child process closes
\* its output and exits.  Starting and cancelling are up to the user and the
\* host.
Fairness ==
    /\ WF_vars(\E e \in ExecIds : execute_begin(e))
    /\ WF_vars(\E e \in ExecIds : execute_spawned(e))
    /\ WF_vars(\E e \in ExecIds : execute_exit(e))
    /\ WF_vars(\E e \in ExecIds : handle_task_completion(e))

InitLive ==
    /\ \E a \in BOOLEAN, ts \in {<<Build>>, <<Build, Lint>>, <<Lint, Build>>} :
           InitApp([autosave |-> a, tasks |-> ts], MaxLiveStarts)
    /\ InitManager(<<>>, 0)
    /\ NoCall
SpecLive == InitLive /\ [][NextRunner]_vars /\ Fairness

\* start_task with the editor and the pre-flight check: any autosave setting,
\* tasks whose executable is installed, missing, the empty word, or not to be
\* read off the command.  The child processes write nothing and nothing is
\* cancelled.
NextStart ==
    \/ \E t \in TaskIds : start_task(t)
    \/ \E e \in ExecIds : execute_begin(e)
    \/ \E e \in ExecIds : execute_spawned(e)
    \/ \E e \in ExecIds : execute_exit(e)
    \/ \E e \in ExecIds : handle_task_completion(e)
    \/ edit_buffer
    \/ handle_file_selected
    \/ handle_file_saved

InitStart ==
    /\ \E a \in BOOLEAN :
           InitApp([autosave |-> a,
                    tasks |-> <<Build, Lint, Quoted, Unbalanced, Assigned>>],
                   MaxGateStarts)
    /\ InitManager(<<>>, 0)
    /\ NoCall
SpecStart == InitStart /\ [][NextStart]_vars

\* The whole application with one task whose executable is installed: the
\* runner, the editor, and every other action of the user interface.
NextFrame ==
    \/ \E t \in TaskIds : start_task(t)
    \/ \E e \in ExecIds : execute_begin(e)
    \/ \E e \in ExecIds : execute_spawned(e)
    \/ \E e \in ExecIds : execute_exit(e)
    \/ \E e \in ExecIds : handle_task_completion(e)
    \/ edit_buffer
    \/ handle_file_selected
    \/ handle_file_saved
    \/ action_save
    \/ action_save_as
    \/ action_save_all
    \/ action_switch_workspace
    \/ handle_workspace_selection
    \/ action_scaffold
    \/ \E t \in TaskIds : handle_task_highlighted(t)
    \/ action_show_shortcuts

InitFrame ==
    /\ InitApp([autosave |-> FALSE, tasks |-> <<Build, Lint>>], MaxGateStarts)
    /\ InitManager(<<>>, 0)
    /\ NoCall
SpecFrame == InitFrame /\ [][NextFrame]_vars

\* The plugin manager from its construction in main, on a system with up to
\* MaxEntries plugins installed; the application is not started.
NextPlugins ==
    \/ discover_entry
    \/ discover_return
    \/ collect_tasks
    \/ dispatch_app_ready
    \/ consume_messages

InitPlugins ==
    /\ InitApp([autosave |-> FALSE, tasks |-> <<Build>>], 0)
    /\ \E eps \in SeqsUpTo(Catalogue, MaxEntries) : InitManager(eps, MaxCalls)
    /\ NoCall
SpecPlugins == InitPlugins /\ [][NextPlugins]_vars

\* coerce_tasks and load_config called on their own with raw task mappings and
\* configuration files of every shape.
NextConfig ==
    \/ coerce_tasks_call
    \/ load_config_call

InitConfig ==
    /\ InitApp([autosave |-> FALSE, tasks |-> <<Build>>], 0)
    /\ InitManager(<<>>, 0)
    /\ \/ \E items \in SeqsUpTo(RawItems, MaxItems) :
              call_args = [fn |-> "coerce_tasks", items |-> items]
       \/ \E file \in ConfigFiles :
              call_args = [fn |-> "load_config", file |-> file]
    /\ call_result = [outcome |-> "not called"]
SpecConfig == InitConfig /\ [][NextConfig]_vars

\* main on the run path (cli.py:105-109), on a system with up to MaxEntries
\* plugins installed and any configuration file in the workspace.
NextMain ==
    \/ discover_entry
    \/ discover_return
    \/ main_load_config

InitMain ==
    /\ InitApp([autosave |-> FALSE, tasks |-> <<Build>>], 0)
    /\ \E eps \in SeqsUpTo(Catalogue, MaxEntries) : InitManager(eps, 0)
    /\ \E file \in {NoFile,
                    File(List(<<>>), FALSE, Absent),
                    File(List(<< RawTask(Str(<<"c">>), Str(<<"a">>), Absent) >>),
                         TRUE, Absent)} :
           call_args = [fn |-> "main", file |-> file]
    /\ call_result = [outcome |-> "not called"]
SpecMain == InitMain /\ [][NextMain]_vars

\* _extract_primary_command called on its own with a first segment followed by
\* an operator and a trailing segment.
NextPreflight == extract_primary_command_call

InitPreflight ==
    /\ InitApp([autosave |-> FALSE, tasks |-> <<Build>>], 0)
    /\ InitManager(<<>>, 0)
    /\ \E c \in FirstSegments, k \in 1..Len(Separators), t \in TrailingSegments :
           call_args = [fn |-> "_extract_primary_command",
                        first |-> c, operator |-> Separators[k],
                        command |-> c \o Separators[k] \o t]
    /\ call_result = [outcome |-> "not called"]
SpecPreflight == InitPreflight /\ [][NextPreflight]_vars

\* The environment _execute_task builds, for any inherited environment and
\* any task env.
NextEnv == spawn_environment_call

InitEnv ==
    /\ InitApp([autosave |-> FALSE, tasks |-> <<Build>>], 0)
    /\ InitManager(<<>>, 0)
    /\ \E environ \in Environs, env \in TaskEnvs :
           call_args = [fn |-> "spawn_environment", environ |-> environ, env |-> env]
    /\ call_result = [outcome |-> "not called"]
SpecEnv == InitEnv /\ [][NextEnv]_vars

\* A plugin's add_task calls and the host's collect_tasks calls, with the
\* plugin and the caller free to modify the objects they hold in between.
NextAlias ==
    \/ add_task_call
    \/ collect_tasks_call
    \/ \E id \in 1..Len(heap) : dict_setitem(id)
    \/ \E id \in 1..Len(heap) : list_pop(id)

InitAlias ==
    /\ InitApp([autosave |-> FALSE, tasks |-> <<Build>>], 0)
    /\ InitManager(<<>>, 0)
    /\ NoCall
SpecAlias == InitAlias /\ [][NextAlias]_vars

(***************************************************************************)
(* Properties of the task runner.                                          *)
(***************************************************************************)

\* Executions that have been created and have not finished.
InFlight == {e \in ExecIds : execs[e].pc \notin Terminal}

\* The console lines and the notifications that belong to execution e.
ConsoleOf(e) == SelectSeq(console, LAMBDA x : x.exec = e)
ErrorsOf(e) ==
    SelectSeq(notifications, LAMBDA n : n.exec = e /\ n.severity = "error")
KindOf(lines, kind) == SelectSeq(lines, LAMBDA x : x.kind = kind)

\* This step is a call of start_task; its argument is last_task'.
StartStep == starts_left' = starts_left - 1

\* This step is the completion callback of execution e.
CallbackStep(e) == ~execs[e].cb /\ execs'[e].cb

\* What the pre-flight check looks up for task t, and whether it is installed.
Candidate(t) == extract_primary_command(config.tasks[t].command)
Unresolved(t) == Candidate(t) # None /\ Candidate(t).val \notin OnPath
Resolved(t) == Candidate(t) # None /\ Candidate(t).val \in OnPath

\* C1: at most one task execution (created and not yet finished) is in flight
\* at any time.
C1_SingleFlight == Cardinality(InFlight) <= 1

\* C2: a call of start_task while an execution is still running is rejected:
\* exactly one warning notification, no new execution, no autosave, no console
\* line, the handle and the executions unchanged.
C2_BusyRejected ==
    [][ (StartStep /\ InFlight # {}) =>
            /\ notifications' =
                   Append(notifications, Note("warning", "already_running", 0, <<>>))
            /\ UNCHANGED <<execs, running_task, console, saves, editor, file_saved>>
      ]_vars

\* C3: a call of start_task while idle (the handle is empty) for a task whose
\* leading executable is not on the search path creates no execution, leaves
\* the handle empty, and emits exactly one error notification and one console
\* line, both naming that executable.
C3_MissingRefused ==
    [][ (StartStep /\ running_task = 0 /\ Unresolved(last_task')) =>
            LET name == Candidate(last_task').val
                new == SubSeq(notifications', Len(notifications) + 1,
                              Len(notifications'))
            IN /\ execs' = execs
               /\ running_task' = 0
               /\ Len(SelectSeq(new, LAMBDA n : n.kind = "not_on_path")) = 1
               /\ \E i \in 1..Len(new) :
                      new[i] = Note("error", "not_on_path", 0, name)
               /\ console' =
                      Append(console,
                             Entry("not_on_path", 0, config.tasks[last_task'].name,
                                   name, 0))
      ]_vars

\* C4: whatever the outcome of an execution (return code 0 or not, exception,
\* cancellation), its completion callback leaves the handle empty, and a call
\* of start_task with the handle empty for a task whose executable is
\* installed is accepted: a new execution is created and the handle refers to
\* it.
C4_ReleasedAfterCompletion ==
    [][ /\ \A e \in ExecIds : CallbackStep(e) => running_task' = 0
        /\ (StartStep /\ running_task = 0 /\ Resolved(last_task')) =>
               /\ Len(execs') = Len(execs) + 1
               /\ running_task' = Len(execs')
               /\ execs'[Len(execs')].task = last_task'
               /\ execs'[Len(execs')].pc = "created"
      ]_vars

\* An execution raised and its callback ran; then a second one was accepted.
C4_Witness ==
    /\ Len(execs) = 2
    /\ execs[1].pc = "raised"
    /\ execs[1].cb
    /\ running_task = 2

\* The console lines of an execution whose child wrote the lines in emitted
\* and exited with code 0.
ExpectedOnSuccess(e) ==
    LET name == config.tasks[execs[e].task].name
        lines == execs[e].emitted
    IN << Entry("section", e, name, <<>>, 0),
          Entry("echo", e, name, config.tasks[execs[e].task].command, 0) >>
       \o [i \in 1..Len(lines) |-> Entry("output", e, name, rstrip(lines[i]), 0)]
       \o << Entry("success", e, name, <<>>, 0) >>

\* C5: for an execution (not cancelled) whose child process wrote lines
\* l1..ln and exited with code 0, the console received, in this order, the
\* section header, the command echo, l1..ln, and one success line, and nothing
\* else for that execution.
C5_OrderedOutput ==
    \A e \in ExecIds :
        (execs[e].child_exit = 0 /\ execs[e].pc # "cancelled") =>
            ConsoleOf(e) = ExpectedOnSuccess(e)

\* C6: once the runner has seen the process exit, return code 0 gives exactly
\* one success line, no failure line and no error notification; a nonzero code
\* gives exactly one failure line, carrying that code, no success line and
\* exactly one error notification, also after the completion callback.
C6_OutcomeClassification ==
    \A e \in ExecIds :
        execs[e].pc = "returned" =>
            LET ok == KindOf(ConsoleOf(e), "success")
                ko == KindOf(ConsoleOf(e), "failure")
            IN IF execs[e].child_exit = 0
               THEN Len(ok) = 1 /\ Len(ko) = 0 /\ ErrorsOf(e) = <<>>
               ELSE /\ Len(ko) = 1
                    /\ ko[1].code = execs[e].child_exit
                    /\ Len(ok) = 0
                    /\ Len(ErrorsOf(e)) = 1

\* An execution failed with code 2 and its completion callback has run.
C6_Witness ==
    \E e \in ExecIds :
        execs[e].pc = "returned" /\ execs[e].child_exit = 2 /\ execs[e].cb

\* C7: the completion callback of a cancelled execution writes the
\* cancellation line, clears the handle and emits no notification; a cancelled
\* execution has no success line, no failure line and no error notification.
C7_Cancellation ==
    /\ [][ \A e \in ExecIds :
               (CallbackStep(e) /\ execs[e].pc = "cancelled") =>
                   /\ console' =
                          Append(console,
                                 Entry("cancelled", e,
                                       config.tasks[execs[e].task].name, <<>>, 0))
                   /\ running_task' = 0
                   /\ notifications' = notifications
         ]_vars
    /\ [](\A e \in ExecIds :
              execs[e].pc = "cancelled" =>
                  /\ KindOf(ConsoleOf(e), "success") = <<>>
                  /\ KindOf(ConsoleOf(e), "failure") = <<>>
                  /\ KindOf(ConsoleOf(e), "task_failed") = <<>>
                  /\ ErrorsOf(e) = <<>>)

\* An execution was cancelled while it was streaming output, and its callback
\* has run.
C7_Witness ==
    \E e \in ExecIds :
        execs[e].pc = "cancelled" /\ execs[e].cb /\ execs[e].emitted # <<>>

\* C33: whenever an execution is unfinished the handle refers to it; the
\* completion callback of an execution never clears the handle while the
\* handle refers to another, unfinished execution.
C33_HandleCorrespondence ==
    /\ [](\A e \in InFlight : running_task = e)
    /\ [][ \A e \in ExecIds :
               (CallbackStep(e) /\ running_task # e /\ running_task \in InFlight) =>
                   running_task' = running_task ]_vars

\* C35: the completion callback of an execution that raised (the process
\* could not be spawned, or a line could not be decoded) writes one
\* 'Task failed' line to the console, emits one error notification and
\* clears the handle; before the callback the execution has neither, after
\* it exactly one of each, and never a success or a failure line; and the
\* application goes on: a step that is not this callback leaves both counts
\* as they are.
C35_RaisedExecution ==
    /\ [][ \A e \in ExecIds :
               (CallbackStep(e) /\ execs[e].pc = "raised") =>
                   /\ console' =
                          Append(console,
                                 Entry("task_failed", e,
                                       config.tasks[execs[e].task].name, <<>>, 0))
                   /\ notifications' =
                          Append(notifications, Note("error", "exception", e, <<>>))
                   /\ running_task' = 0
         ]_vars
    /\ [](\A e \in ExecIds :
              execs[e].pc = "raised" =>
                  LET n == IF execs[e].cb THEN 1 ELSE 0
                  IN /\ Len(KindOf(ConsoleOf(e), "task_failed")) = n
                     /\ Len(ErrorsOf(e)) = n
                     /\ KindOf(ConsoleOf(e), "success") = <<>>
                     /\ KindOf(ConsoleOf(e), "failure") = <<>>)

\* The spawn of the first execution raised; its callback wrote the 'Task
\* failed' line as the latest console line and left the handle empty.
C35_Witness ==
    /\ Len(execs) = 1
    /\ execs[1].pc = "raised"
    /\ execs[1].emitted = <<>>
    /\ execs[1].cb
    /\ running_task = 0
    /\ console[Len(console)].kind = "task_failed"
    /\ Len(notifications) = 1

\* The states of the runner's machine an execution is in.
Launching(x) == x.pc \in {"created", "spawning"}
Streaming(x) == x.pc = "streaming"
Succeeded(x) == x.pc = "returned" /\ x.child_exit = 0
Failed(x) == x.pc = "raised" \/ (x.pc = "returned" /\ x.child_exit # 0)
Cancelled(x) == x.pc = "cancelled"
Outcome(x) == Succeeded(x) \/ Failed(x) \/ Cancelled(x)

\* No execution is unfinished or waits for its callback, and the handle is
\* empty.
Idle ==
    /\ running_task = 0
    /\ \A e \in ExecIds : done(e) /\ execs[e].cb

\* An accepted start creates one execution, in Launching; an execution, once
\* it has an outcome, keeps it, and it has never two.
MachineFrame ==
    /\ Len(execs) <= Len(execs')
    /\ \A e \in 1..Len(execs') : e > Len(execs) => Launching(execs'[e])
    /\ \A e \in ExecIds :
           /\ Outcome(execs[e]) =>
                  /\ Succeeded(execs'[e]) <=> Succeeded(execs[e])
                  /\ Failed(execs'[e]) <=> Failed(execs[e])
                  /\ Cancelled(execs'[e]) <=> Cancelled(execs[e])
           /\ Cardinality({o \in {"s", "f", "c"} :
                               \/ o = "s" /\ Succeeded(execs'[e])
                               \/ o = "f" /\ Failed(execs'[e])
                               \/ o = "c" /\ Cancelled(execs'[e])}) <= 1

\* An execution with work left or a callback to come leads to Idle.
ReturnsToIdle == (~Idle) ~> Idle

\* C32 as stated: every accepted start follows Idle -> Launching -> Streaming
\* -> exactly one of Succeeded, Failed, Cancelled -> Idle: an execution is
\* created in Launching, leaves Launching for Streaming only, leaves
\* Streaming for an outcome only, and keeps its outcome; and under a fair
\* event loop with a child that closes its output and exits, the runner
\* returns to Idle with the handle empty.
C32_RunnerLiveness ==
    /\ [][ /\ MachineFrame
           /\ \A e \in ExecIds :
                  /\ (Launching(execs[e]) /\ ~Launching(execs'[e])) =>
                         Streaming(execs'[e])
                  /\ (Streaming(execs[e]) /\ ~Streaming(execs'[e])) =>
                         Outcome(execs'[e])
         ]_vars
    /\ ReturnsToIdle

\* C32, amended: the same, except that an execution leaves Launching for
\* Streaming, or for Failed when spawning the process raises, or for
\* Cancelled when it is cancelled first; no execution has an outcome without
\* having been in Launching.
C32_RunnerLivenessOrSkip ==
    /\ [][ /\ MachineFrame
           /\ \A e \in ExecIds :
                  /\ (Launching(execs[e]) /\ ~Launching(execs'[e])) =>
                         \/ Streaming(execs'[e])
                         \/ execs'[e].pc = "raised"
                         \/ Cancelled(execs'[e])
                  /\ (Streaming(execs[e]) /\ ~Streaming(execs'[e])) =>
                         Outcome(execs'[e])
         ]_vars
    /\ ReturnsToIdle

\* An accepted start went all the way: the child wrote a line and exited
\* with code 0, the callback ran, and the runner is idle again.
C32_Witness ==
    /\ Len(execs) = 1
    /\ Succeeded(execs[1])
    /\ execs[1].emitted # <<>>
    /\ Idle

(***************************************************************************)
(* Properties of the plugin manager.                                       *)
(***************************************************************************)
Range(seq) == {seq[i] : i \in 1..Len(seq)}
Last(seq) == seq[Len(seq)]
\* What a step appended to a list.
Added(before, after) == SubSeq(after, Len(before) + 1, Len(after))

\* A PluginAPI call that raises: an argument of the wrong type.
BadCall(op) ==
    \/ op.op = "add_task" /\ op.arg.kind # "mapping"
    \/ op.op \in {"provide_tasks", "on_app_ready"}
           /\ op.arg.kind \notin {"provider", "hook"}
    \/ op.op = "log" /\ op.arg.kind # "level"

\* The plugin loads, has a registration callable, and that callable raises.
RegistrationRaises(p) ==
    LET callable == IF p.register # None THEN p.register ELSE p.call
    IN /\ p.load_ok
       /\ p.register # AttributeRaises
       /\ callable # None
       /\ \/ callable.val.raises
          \/ \E k \in 1..Len(callable.val.script) : BadCall(callable.val.script[k])

\* The one message with which discover closes the handling of an entry.
OutcomeOf(p) ==
    CASE ~p.load_ok -> "Failed to import plugin"
      [] p.load_ok /\ p.register = None /\ p.call = None -> "no callable entry point"
      [] RegistrationRaises(p) -> "raised during registration"
      [] OTHER -> "Registered plugin"

Outcomes ==
    SelectSeq(messages,
              LAMBDA x : x.text \in {"Failed to import plugin", "no callable entry point",
                                     "raised during registration", "Registered plugin"})

\* The loop of discover has handled entry j.
Handled(j) ==
    /\ Len(Outcomes) >= j
    /\ Outcomes[j].source = entry_points[j].name
    /\ Outcomes[j].text = OutcomeOf(entry_points[j])

\* The loop of discover is over; nothing else has touched the manager.
LoopOver == ~discovered /\ position = Len(entry_points)

CollectStep == last_call' = "collect_tasks" /\ calls_left' = calls_left - 1

SourceAt(k) == task_providers[k][1]
ProviderAt(k) == task_providers[k][2]

\* The tasks a provider contributes when its call returns a list.
Contribution(provider) ==
    IF provider.behaviour = "items"
    THEN SelectSeq(provider.items, LAMBDA x : x.kind = "mapping")
    ELSE <<>>

\* The contributions of the providers from the k-th on, in registration order.
RECURSIVE ContributionsFrom(_)
ContributionsFrom(k) ==
    IF k > Len(task_providers)
    THEN <<>>
    ELSE Contribution(ProviderAt(k)) \o ContributionsFrom(k + 1)

StaticMappings == [i \in 1..Len(static_tasks) |-> static_tasks[i][2]]

\* C9: in collect_tasks a provider that raises contributes no tasks, causes
\* one error-level message tagged with its source (one for each raising
\* provider of that source), no exception reaches the caller, and the result
\* is all static tasks plus the tasks of every non-raising provider.
C9_RaisingProviderIsolated ==
    [][ CollectStep =>
            \A k \in 1..Len(task_providers) :
                ProviderAt(k).behaviour = "raise" =>
                    /\ collected'.outcome = "returned"
                    /\ Len(SelectSeq(Added(messages, messages'),
                                     LAMBDA x : /\ x.source = SourceAt(k)
                                                /\ x.level = "error"
                                                /\ x.text = "Task provider raised"))
                           = Cardinality({j \in 1..Len(task_providers) :
                                              /\ SourceAt(j) = SourceAt(k)
                                              /\ ProviderAt(j).behaviour = "raise"})
                    /\ collected'.tasks = StaticMappings \o ContributionsFrom(1)
      ]_vars

\* C10: in collect_tasks a provider whose return value is not iterable (and
\* is not None) is handled inside the failure boundary: collect_tasks returns
\* normally, records an error-level message naming that provider's source,
\* and still invokes the providers after it.
C10_NonIterableHandled ==
    [][ CollectStep =>
            \A k \in 1..Len(task_providers) :
                ProviderAt(k).behaviour = "not_iterable" =>
                    /\ collected'.outcome = "returned"
                    /\ \E x \in Range(Added(messages, messages')) :
                           x.source = SourceAt(k) /\ x.level = "error"
                    /\ \A j \in (k + 1)..Len(task_providers) :
                           j \in Range(collected'.invoked)
      ]_vars

\* The provider's call returns a list with an element that is no mapping.
YieldsNonMapping(provider) ==
    /\ provider.behaviour = "items"
    /\ \E i \in 1..Len(provider.items) : provider.items[i].kind # "mapping"

\* The tasks of the providers from the k-th on when the whole output of a
\* provider that yielded a non-mapping is skipped.
RECURSIVE WholeOutputsFrom(_)
WholeOutputsFrom(k) ==
    IF k > Len(task_providers)
    THEN <<>>
    ELSE (IF YieldsNonMapping(ProviderAt(k))
          THEN <<>>
          ELSE Contribution(ProviderAt(k))) \o WholeOutputsFrom(k + 1)

\* C11: in collect_tasks, if an element yielded by a provider is not a
\* mapping, an error-level message naming the provider's source is recorded,
\* none of that provider's elements (its well-formed mappings included) is in
\* the result, and the providers after it are still invoked.
C11_NonMappingSkipsProvider ==
    [][ CollectStep =>
            \A k \in 1..Len(task_providers) :
                YieldsNonMapping(ProviderAt(k)) =>
                    /\ \E x \in Range(Added(messages, messages')) :
                           x.source = SourceAt(k) /\ x.level = "error"
                    /\ collected'.tasks = StaticMappings \o WholeOutputsFrom(1)
                    /\ \A j \in (k + 1)..Len(task_providers) :
                           j \in Range(collected'.invoked)
      ]_vars

\* A step of consume_messages.
ConsumeStep == last_call' = "consume_messages" /\ calls_left' = calls_left - 1

IsPrefix(short, long) ==
    Len(short) <= Len(long) /\ SubSeq(long, 1, Len(short)) = short

\* C12: the message queue is drained once.  Until a consume_messages call the
\* recorded messages stay queued in the order they were recorded (every other
\* step only appends); the call returns exactly the queue in that order and
\* leaves it empty, so each message is returned by the first call after it was
\* recorded and by no later one; a call right after another returns nothing.
C12_DrainOnce ==
    [][ /\ ConsumeStep => (returned' = messages /\ messages' = <<>>)
        /\ ~ConsumeStep => (IsPrefix(messages, messages') /\ returned' = returned)
        /\ (ConsumeStep /\ last_call = "consume_messages") => returned' = <<>>
      ]_vars

\* consume_messages returned the message of a failed provider, recorded by
\* collect_tasks after an earlier consume_messages call had returned the
\* messages of discover.
C12_Witness ==
    /\ last_call = "consume_messages"
    /\ messages = <<>>
    /\ \E x \in Range(returned) : x.text = "Task provider raised"
    /\ \A x \in Range(returned) : x.text # "Registered plugin"

\* A step of dispatch_app_ready.
DispatchStep == dispatch_calls' = dispatch_calls + 1

\* The ids of the registered hooks, in registration order.
HookIds == [i \in 1..Len(app_hooks) |-> app_hooks[i][2].id]
Occurrences(seq, x) == Cardinality({i \in 1..Len(seq) : seq[i] = x})

\* C13: dispatch_app_ready is idempotent.  Over any number of calls, a
\* re-entrant call by a hook included, no hook is invoked more often than it
\* was registered, and the second and later calls invoke no hook and record
\* no message.
C13_DispatchIdempotent ==
    /\ [](\A id \in Range(hook_calls) :
              Occurrences(hook_calls, id) <= Occurrences(HookIds, id))
    /\ [][ (DispatchStep /\ dispatch_calls >= 1) =>
               (hook_calls' = hook_calls /\ messages' = messages) ]_vars

\* dispatch_app_ready was called twice on a manager with a hook that calls it
\* again itself and a hook that raises; each was invoked once.
C13_Witness ==
    /\ dispatch_calls >= 2
    /\ Occurrences(hook_calls, "again") = 1
    /\ Occurrences(hook_calls, "flaky") = 1

\* The sources of the registered hooks that raise, in registration order.
RaisingHookSources ==
    LET raising == SelectSeq(app_hooks, LAMBDA h : h[2].behaviour = "raise")
    IN [i \in 1..Len(raising) |-> raising[i][1]]

\* C14: the first dispatch_app_ready invokes every hook registered so far
\* exactly once, in registration order; each hook that raises produces one
\* error-level message tagged with its source, and the hooks after it are
\* still invoked.
C14_FirstDispatch ==
    [][ (DispatchStep /\ dispatch_calls = 0) =>
            LET failures == SelectSeq(Added(messages, messages'),
                                      LAMBDA x : x.text = "App hook raised")
            IN /\ hook_calls = <<>>
               /\ hook_calls' = HookIds
               /\ IsPrefix(messages, messages')
               /\ failures = [i \in 1..Len(RaisingHookSources) |->
                                 [source |-> RaisingHookSources[i],
                                  level |-> "error", text |-> "App hook raised"]]
      ]_vars

\* The first dispatch_app_ready is over: a hook that raised was followed by a
\* hook of another plugin, which was invoked.
C14_Witness ==
    /\ dispatch_calls = 1
    /\ Len(hook_calls) >= 2
    /\ hook_calls[1] = "flaky"
    /\ hook_calls[2] # "flaky"
    /\ \E x \in Range(messages) : x.source = "flaky" /\ x.text = "App hook raised"

\* The messages collect_tasks records for the providers from the k-th on: one
\* for a provider whose call raises, one for each element that is no mapping,
\* none for a provider that returns nothing.
RECURSIVE CollectMessagesFrom(_)
CollectMessagesFrom(k) ==
    IF k > Len(task_providers)
    THEN <<>>
    ELSE LET provider == ProviderAt(k)
             junk == SelectSeq(provider.items, LAMBDA x : x.kind # "mapping")
             own == CASE provider.behaviour = "raise" ->
                             << [source |-> SourceAt(k), level |-> "error",
                                 text |-> "Task provider raised"] >>
                      [] provider.behaviour = "items" ->
                             [i \in 1..Len(junk) |->
                                 [source |-> SourceAt(k), level |-> "error",
                                  text |-> "non-mapping item"]]
                      [] OTHER -> <<>>
         IN own \o CollectMessagesFrom(k + 1)

\* C15: what collect_tasks returns is the static contributions in the order
\* they were registered, followed by the mappings of the providers, grouped
\* per provider in provider registration order and, within a provider, in the
\* order it yielded them; a provider that returns nothing contributes no task
\* and records no message.
C15_MergeOrder ==
    [][ (CollectStep /\ collected'.outcome = "returned") =>
            /\ collected'.tasks = StaticMappings \o ContributionsFrom(1)
            /\ messages' = messages \o CollectMessagesFrom(1)
      ]_vars

\* collect_tasks returned static tasks followed by the tasks of two providers,
\* one of which yielded two mappings, with a provider that returns nothing
\* among the providers.
C15_Witness ==
    /\ collected.outcome = "returned"
    /\ static_tasks # <<>>
    /\ \E k \in 1..Len(task_providers) : ProviderAt(k).behaviour = "none"
    /\ \E j, k \in 1..Len(task_providers) :
           /\ j < k
           /\ Len(Contribution(ProviderAt(j))) >= 1
           /\ Len(Contribution(ProviderAt(k))) >= 2
    /\ collected.tasks = StaticMappings \o ContributionsFrom(1)

\* The characters of the names and commands plugins contribute.
Chars(text) ==
    CASE text = "lint" -> <<"l", "i", "n", "t">>
      [] text = "flake8" -> <<"f", "l", "a", "k", "e", "8">>
      [] text = "test" -> <<"t", "e", "s", "t">>
      [] text = "pytest" -> <<"p", "y", "t", "e", "s", "t">>
      [] text = "docs" -> <<"d", "o", "c", "s">>
      [] text = "sphinx" -> <<"s", "p", "h", "i", "n", "x">>

\* What collect_tasks is to contribute at startup, as raw task mappings.
PluginContributions ==
    LET merged == StaticMappings \o ContributionsFrom(1)
    IN [i \in 1..Len(merged) |->
           RawTask(Str(Chars(merged[i].name)), Str(Chars(merged[i].command)), Absent)]

\* The user-configured tasks of main's configuration file.
UserTasks ==
    IF call_args.file.exists /\ call_args.file.tasks.kind = "list"
    THEN call_args.file.tasks.items
    ELSE <<>>

\* C16: the task list main hands to the application is the validated list of
\* the built-in tasks, then the user-configured tasks, then the plugins'
\* static tasks, then the provider-sourced tasks per provider in registration
\* order.
C16_EffectiveTaskList ==
    (call_args.fn = "main" /\ call_result.outcome # "not called") =>
        LET expected == coerce_tasks(DefaultTasks \o UserTasks \o PluginContributions)
        IN /\ call_result.outcome = expected.outcome
           /\ expected.outcome = "returned" =>
                  call_result.value.tasks = expected.value

\* The value is missing or, trimmed, the empty string.
Blank(value) ==
    \/ value.kind = "absent"
    \/ value.kind = "str" /\ strip(value.chars) = <<>>

TrimmedName(item) == strip(py_str(get(item, "name", Str(<<>>))))

\* A mapping of the input has a missing or blank name or command, a name that
\* an earlier mapping has, or an env value that is not a mapping.
Rejectable(items) ==
    \E i \in 1..Len(items) :
        \/ Blank(items[i].name)
        \/ Blank(items[i].command)
        \/ \E j \in 1..(i - 1) : TrimmedName(items[j]) = TrimmedName(items[i])
        \/ items[i].env.kind \notin {"absent", "dict"}

\* C17: registry construction fails closed: for an input with a mapping that
\* has a missing or blank name, a missing or blank command, the name of an
\* earlier mapping, or an env value that is not a mapping, coerce_tasks raises
\* a configuration error and returns no task list.
C17_FailsClosed ==
    (call_args.fn = "coerce_tasks"
         /\ call_result.outcome # "not called"
         /\ Rejectable(call_args.items)) =>
        call_result = Raises("TaskConfigurationError")

\* The operator appended to the first segment is the first occurrence of an
\* operator in the command: none starts inside the first segment.
FirstOperator(first, operator) ==
    \A k \in 1..Len(Separators), i \in 1..Len(first) :
        ~StartsAt(first \o operator, Separators[k], i)

\* C18: the candidate executable depends only on the command text before the
\* first occurrence of an operator (&&, ||, |, ;, newline): for a command
\* made of a non-blank first segment, such an operator and any trailing
\* segment, the candidate is the candidate of the first segment alone.
C18_TrailingSegmentsIgnored ==
    (call_args.fn = "_extract_primary_command"
         /\ call_result.outcome = "returned"
         /\ strip(call_args.first) # <<>>
         /\ FirstOperator(call_args.first, call_args.operator)) =>
        call_result.value = extract_primary_command(call_args.first)

\* The checker was called with "F=1 x", an operator and a trailing segment
\* that follows without a blank, and gave "x".
C18_Witness ==
    /\ call_args.fn = "_extract_primary_command"
    /\ call_args.first = <<"F", "=", "1", " ", "x">>
    /\ call_args.command = <<"F", "=", "1", " ", "x", "|", "x">>
    /\ call_result = Returned(Some(<<"x">>))

\* The keys of a task env.
KeysOf(env) == {env[i].key : i \in 1..Len(env)}

\* C19: the environment passed to the spawned process is the inherited
\* environment overlaid with the task's env: every key of task.env has the
\* task's value, every inherited key not in task.env keeps its inherited
\* value, and there are no other keys.
C19_EnvironmentOverlay ==
    (call_args.fn = "spawn_environment" /\ call_result.outcome = "returned") =>
        LET passed == call_result.value
            environ == call_args.environ
            env == call_args.env
        IN /\ DOMAIN passed = DOMAIN environ \cup KeysOf(env)
           /\ \A i \in 1..Len(env) : passed[env[i].key] = env[i].value
           /\ \A k \in DOMAIN environ \ KeysOf(env) : passed[k] = environ[k]

\* The environment was built for a task env that overrides an inherited key
\* and adds a new one, next to an inherited key it leaves alone.
C19_Witness ==
    /\ call_args.fn = "spawn_environment"
    /\ call_result.outcome = "returned"
    /\ call_args.environ = [k \in {"PATH", "K"} |-> "u"]
    /\ call_args.env = << Item("K", "v"), Item("L", "v") >>
    /\ call_result.value = [k \in EnvKeys |-> IF k = "PATH" THEN "u" ELSE "v"]

\* The console entries that forward the lines read from the child of e.
ForwardedLines(e) ==
    [i \in 1..Len(execs[e].emitted) |->
        Entry("output", e, config.tasks[execs[e].task].name,
              rstrip(execs[e].emitted[i]), 0)]

\* C20: live streaming: every line the runner has read from the child is in
\* the console, in order, by the time the runner reads the next line or sees
\* the process exit; while the execution is still reading there is no success
\* or failure line yet.
C20_LiveStreaming ==
    \A e \in ExecIds :
        /\ KindOf(ConsoleOf(e), "output") = ForwardedLines(e)
        /\ execs[e].pc = "streaming" =>
               /\ KindOf(ConsoleOf(e), "success") = <<>>
               /\ KindOf(ConsoleOf(e), "failure") = <<>>

\* The calls of a registration script that are made: those before the first
\* call that raises.
Made(script) ==
    LET bad == {k \in 1..Len(script) : BadCall(script[k])}
    IN IF bad = {}
       THEN script
       ELSE SubSeq(script, 1, (CHOOSE k \in bad : \A j \in bad : k <= j) - 1)

\* What the calls of one kind among ops register for source, in order.
Registered(ops, op, source) ==
    LET calls == SelectSeq(ops, LAMBDA x : x.op = op)
    IN [k \in 1..Len(calls) |-> <<source, calls[k].arg>>]

\* The spellings of the three levels a plugin may pass, compared without
\* regard to case; every other name is recorded as info.
Recorded(name) ==
    CASE name \in {"info", "INFO"} -> "info"
      [] name \in {"warning", "WARNING"} -> "warning"
      [] name \in {"error", "Error"} -> "error"
      [] OTHER -> "info"

\* The messages the log calls among ops record for source, in order.
Logged(ops, source) ==
    LET calls == SelectSeq(ops, LAMBDA x : x.op = "log")
    IN [k \in 1..Len(calls) |->
           [source |-> source, level |-> Recorded(calls[k].arg.name),
            text |-> "plugin says"]]

\* A round of the loop of discover: entry i is handled.
DiscoverStep(i) == position = i - 1 /\ position' = i

\* C21: registration is not transactional.  When a registration callable
\* raises, the static tasks, providers, hooks and log messages it registered
\* before raising are in the manager, tagged with its source, while the source
\* is not added to loaded_plugins; no later step removes a contribution; every
\* collect_tasks call that returns a result returns the static tasks and the
\* mappings of the registered providers; the first dispatch_app_ready runs
\* every registered hook; and the queued messages stay queued until a
\* consume_messages call returns them.
C21_NoRollback ==
    /\ [][ \A i \in 1..Len(entry_points) :
               (DiscoverStep(i) /\ RegistrationRaises(entry_points[i])) =>
                   LET p == entry_points[i]
                       source == p.name
                       callable == IF p.register # None THEN p.register ELSE p.call
                       made == Made(callable.val.script)
                   IN /\ static_tasks' =
                              static_tasks \o Registered(made, "add_task", source)
                      /\ task_providers' =
                              task_providers \o Registered(made, "provide_tasks", source)
                      /\ app_hooks' =
                              app_hooks \o Registered(made, "on_app_ready", source)
                      /\ messages' =
                              messages \o Logged(made, source)
                                  \o << [source |-> source, level |-> "error",
                                         text |-> "raised during registration"] >>
                      /\ loaded_plugins' = loaded_plugins
         ]_vars
    /\ [][ /\ IsPrefix(static_tasks, static_tasks')
           /\ IsPrefix(task_providers, task_providers')
           /\ IsPrefix(app_hooks, app_hooks')
           /\ ~ConsumeStep => IsPrefix(messages, messages')
           /\ ConsumeStep => returned' = messages
         ]_vars
    /\ [][ (CollectStep /\ collected'.outcome = "returned") =>
               /\ IsPrefix(StaticMappings, collected'.tasks)
               /\ collected'.invoked = [k \in 1..Len(task_providers) |-> k]
               /\ \A k \in 1..Len(task_providers) :
                      Range(Contribution(ProviderAt(k))) \subseteq Range(collected'.tasks)
         ]_vars
    /\ [][ (DispatchStep /\ ~app_hooks_dispatched) =>
               Range(HookIds) \subseteq Range(Added(hook_calls, hook_calls')) ]_vars

\* A plugin that registered a static task, a provider, a hook and a log
\* message and then raised is not loaded; collect_tasks returned its static
\* task and its provider's task, dispatch_app_ready ran its hook, and
\* consume_messages returned its log message.
C21_Witness ==
    /\ \E i \in 1..Len(entry_points) : entry_points[i].name = "partial"
    /\ "partial" \notin Range(loaded_plugins)
    /\ collected.outcome = "returned"
    /\ Docs1 \in Range(collected.tasks)
    /\ Lint1 \in Range(collected.tasks)
    /\ "partial" \in Range(hook_calls)
    /\ last_call = "consume_messages"
    /\ [source |-> "partial", level |-> "warning", text |-> "plugin says"]
           \in Range(returned)

\* The callable the claim has activation select: the "register" attribute if
\* the object has a callable one, else the object itself if callable.
Selected(p) == IF p.register # None THEN p.register ELSE p.call

\* C23: the activation of a loaded plugin object invokes its callable
\* "register" attribute if it has one, otherwise the object itself if it is
\* callable.  If it has neither, exactly one message is recorded, a warning
\* tagged with the source, nothing is registered and the source is not added
\* to loaded_plugins.  If the callable returns, the source is appended to
\* loaded_plugins and exactly one info-level message of the manager is
\* recorded, after the messages the plugin logged itself.
C23_Activation ==
    [][ \A i \in 1..Len(entry_points) :
            (DiscoverStep(i) /\ entry_points[i].load_ok) =>
                LET p == entry_points[i]
                    source == p.name
                IN IF Selected(p) = None
                   THEN /\ messages' =
                               Append(messages, [source |-> source, level |-> "warning",
                                                 text |-> "no callable entry point"])
                        /\ UNCHANGED <<static_tasks, task_providers, app_hooks,
                                       hook_calls, loaded_plugins>>
                   ELSE LET made == Made(Selected(p).val.script)
                        IN /\ static_tasks' =
                                   static_tasks \o Registered(made, "add_task", source)
                           /\ task_providers' =
                                   task_providers
                                       \o Registered(made, "provide_tasks", source)
                           /\ app_hooks' =
                                   app_hooks \o Registered(made, "on_app_ready", source)
                           /\ ~RegistrationRaises(p) =>
                                  /\ loaded_plugins' = Append(loaded_plugins, source)
                                  /\ messages' =
                                         messages \o Logged(made, source)
                                             \o << [source |-> source, level |-> "info",
                                                    text |-> "Registered plugin"] >>
      ]_vars

\* Discovery is over: a plugin with a callable "register" attribute that is
\* callable itself was registered through "register", after it a callable
\* object without the attribute was registered, and it had logged an info
\* message itself before the manager's.
C23_Witness ==
    /\ LoopOver
    /\ Len(entry_points) = 2
    /\ entry_points[1].name = "both"
    /\ entry_points[2].name = "function"
    /\ loaded_plugins = <<"both", "function">>
    /\ static_tasks = << <<"both", Test1>>, <<"function", Lint1>> >>
    /\ Len(messages) = 3
    /\ messages[2] = [source |-> "function", level |-> "info", text |-> "plugin says"]
    /\ messages[3] = [source |-> "function", level |-> "info",
                      text |-> "Registered plugin"]

\* The entries that load and whose registration callable returns.
Registers(p) ==
    /\ p.load_ok
    /\ p.register # AttributeRaises
    /\ Selected(p) # None
    /\ ~RegistrationRaises(p)

\* C24: discover never lets an extension failure reach its caller and its
\* loop handles every entry point; an entry whose load fails yields one
\* error-level message tagged with the entry's name and is not activated; and
\* once discover is over loaded_plugins is the names of the entries that
\* loaded and registered without raising, in discovery order.
C24_DiscoverTotal ==
    /\ [](last_call # "discover raised")
    /\ [][ \A i \in 1..Len(entry_points) :
               (DiscoverStep(i) /\ ~entry_points[i].load_ok) =>
                   /\ messages' =
                          Append(messages, [source |-> entry_points[i].name,
                                            level |-> "error",
                                            text |-> "Failed to import plugin"])
                   /\ UNCHANGED <<static_tasks, task_providers, app_hooks,
                                  hook_calls, loaded_plugins>>
         ]_vars
    /\ []((LoopOver \/ discovered) =>
              LET registered == SelectSeq(entry_points, Registers)
              IN loaded_plugins = [k \in 1..Len(registered) |-> registered[k].name])

\* The PluginAPI calls in the code of plugin p.
Script(p) ==
    IF p.register = AttributeRaises \/ Selected(p) = None
    THEN <<>>
    ELSE Selected(p).val.script

\* The names of the plugins of the catalogue whose code makes the call.
Owners(op, arg) ==
    {p.name : p \in {q \in Catalogue :
                        \E k \in 1..Len(Script(q)) : Script(q)[k] = Op(op, arg)}}

\* The plugins a hook belongs to: the hook "late" is registered by the hook of
\* the plugin 'plain', through the API that plugin kept.
HookOwners(hook) ==
    IF hook.id = "late" THEN {"plain"} ELSE Owners("on_app_ready", hook)

\* The messages a call of provider code or hook code leaves in the queue.
ProviderFails(provider) ==
    \/ provider.behaviour = "raise"
    \/ \E k \in 1..Len(provider.items) : ~is_mapping(provider.items[k])

\* C30: source tagging.  Every static task, provider and hook in the manager
\* is tagged with the name of a plugin whose code registers it; what a round
\* of discover stores (tasks, providers, hooks, messages, the load-failure
\* and registration-failure messages included) is tagged with the name of
\* the entry point of that round; an error message of collect_tasks carries
\* the source of a provider that raised or returned an item that is no
\* mapping; and a message recorded during dispatch_app_ready carries the
\* source of the hook that raised (error) or logged (info).
C30_SourceTagging ==
    /\ [](/\ \A k \in 1..Len(static_tasks) :
               static_tasks[k][1] \in Owners("add_task", static_tasks[k][2])
          /\ \A k \in 1..Len(task_providers) :
               task_providers[k][1] \in Owners("provide_tasks", task_providers[k][2])
          /\ \A k \in 1..Len(app_hooks) :
               app_hooks[k][1] \in HookOwners(app_hooks[k][2]))
    /\ [][ /\ \A i \in 1..Len(entry_points) :
                DiscoverStep(i) =>
                    LET source == entry_points[i].name
                    IN /\ IsPrefix(messages, messages')
                       /\ \A msg \in Range(Added(messages, messages')) :
                              msg.source = source
                       /\ \A c \in Range(Added(static_tasks, static_tasks'))
                                   \cup Range(Added(task_providers, task_providers'))
                                   \cup Range(Added(app_hooks, app_hooks')) :
                              c[1] = source
                       /\ ~entry_points[i].load_ok =>
                              Added(messages, messages') =
                                  << [source |-> source, level |-> "error",
                                      text |-> "Failed to import plugin"] >>
                       /\ RegistrationRaises(entry_points[i]) =>
                              Last(messages') =
                                  [source |-> source, level |-> "error",
                                   text |-> "raised during registration"]
           /\ CollectStep =>
                   /\ IsPrefix(messages, messages')
                   /\ \A msg \in Range(Added(messages, messages')) :
                          /\ msg.level = "error"
                          /\ \E k \in 1..Len(task_providers) :
                                 /\ ProviderFails(task_providers[k][2])
                                 /\ msg.source
                                        \in Owners("provide_tasks", task_providers[k][2])
           /\ DispatchStep =>
                   /\ IsPrefix(messages, messages')
                   /\ \A msg \in Range(Added(messages, messages')) :
                          \E k \in 1..Len(app_hooks) :
                              LET hook == app_hooks[k][2]
                              IN /\ msg.source \in HookOwners(hook)
                                 /\ \/ hook.behaviour = "raise" /\ msg.level = "error"
                                    \/ hook.behaviour = "log" /\ msg.level = "info"
                   /\ \A c \in Range(Added(app_hooks, app_hooks')) :
                          c[1] \in HookOwners(c[2])
      ]_vars

\* The plugins 'good' and 'flaky' are installed in that order; the provider
\* and the hook of 'flaky' raised and both error messages carry 'flaky',
\* while the task, the provider and the hook of 'good' are tagged 'good'.
C30_Witness ==
    /\ Len(entry_points) = MaxEntries
    /\ entry_points[1].name = "good"
    /\ entry_points[2].name = "flaky"
    /\ static_tasks = << <<"good", Lint1>> >>
    /\ task_providers[1][1] = "good"
    /\ app_hooks[1][1] = "good"
    /\ \E a, b \in 1..Len(messages) :
           /\ messages[a] = [source |-> "flaky", level |-> "error",
                             text |-> "Task provider raised"]
           /\ messages[b] = [source |-> "flaky", level |-> "error",
                             text |-> "App hook raised"]

MessageLevels == {"info", "warning", "error"}

\* C31: every message in the manager's queue, and every message the latest
\* consume_messages call returned, has a level among info, warning and
\* error; and the messages a registration callable logs are recorded, in
\* order, with the level it passed compared without regard to case, and with
\* info for a level that is none of the three.
C31_LevelsNormalised ==
    /\ [](/\ \A k \in 1..Len(messages) : messages[k].level \in MessageLevels
          /\ \A k \in 1..Len(returned) : returned[k].level \in MessageLevels)
    /\ [][ \A i \in 1..Len(entry_points) :
               (DiscoverStep(i) /\ Script(entry_points[i]) # <<>>) =>
                   SelectSeq(Added(messages, messages'),
                             LAMBDA msg : msg.text = "plugin says")
                       = Logged(Made(Script(entry_points[i])), entry_points[i].name)
         ]_vars

\* consume_messages returned what the plugin 'chatty' logged with the levels
\* "debug" and "Error": an info and an error message.
C31_Witness ==
    /\ Len(entry_points) = 1
    /\ entry_points[1].name = "chatty"
    /\ Len(returned) = 3
    /\ returned[1] = [source |-> "chatty", level |-> "info", text |-> "plugin says"]
    /\ returned[2] = [source |-> "chatty", level |-> "error", text |-> "plugin says"]
    /\ returned[3].text = "raised during registration"

\* C34: dispatch_app_ready sets the dispatched flag before it invokes a hook
\* and iterates over a copy of the hook list.  The flag is set whenever a
\* hook has been invoked and is never reset; a hook registered during a
\* dispatch_app_ready call (by another hook) is not invoked by that call; and
\* once the flag is set no step invokes a hook, so a hook registered during
\* or after the first dispatch_app_ready is never invoked.
C34_SnapshotDispatch ==
    /\ [](hook_calls # <<>> => app_hooks_dispatched)
    /\ [][ /\ app_hooks_dispatched => app_hooks_dispatched'
           /\ DispatchStep =>
                  /\ app_hooks_dispatched'
                  /\ IsPrefix(app_hooks, app_hooks')
                  /\ \A c \in Range(Added(app_hooks, app_hooks')) :
                         Occurrences(hook_calls', c[2].id)
                             <= Occurrences(HookIds, c[2].id)
           /\ app_hooks_dispatched => hook_calls' = hook_calls
         ]_vars

\* The hook of 'plain' registered the hook "late" during the first
\* dispatch_app_ready; dispatch_app_ready was called again; "late" is in the
\* list of hooks and was not invoked.
C34_Witness ==
    /\ dispatch_calls >= 2
    /\ \E k \in 1..Len(app_hooks) : app_hooks[k][2].id = "late"
    /\ "plain" \in Range(hook_calls)
    /\ "late" \notin Range(hook_calls)

(***************************************************************************)
(* Properties of the pre-flight check and of autosave in start_task.       *)
(***************************************************************************)
\* The part of a command the check reads: the text before the first operator.
FirstSegment(command) == truncate(strip(command), 1)

\* A token the check takes for an environment assignment: KEY=value with a
\* key that is not empty, not beginning with a quote character.
EnvAssignment(token) ==
    /\ \E k \in 2..Len(token) : token[k] = "="
    /\ token[1] # "="
    /\ token[1] \notin Quotes

\* A command the check cannot verify: blank, a first segment that shlex.split
\* rejects, or a first segment of environment assignments only.
Unverifiable(command) ==
    \/ strip(command) = <<>>
    \/ ~shlex_split(FirstSegment(command)).ok
    \/ LET tokens == shlex_split(FirstSegment(command)).tokens
       IN \A k \in 1..Len(tokens) : EnvAssignment(tokens[k])

\* The start_task step created an execution for the task and made it the
\* running task.
Spawns ==
    /\ Len(execs') = Len(execs) + 1
    /\ SubSeq(execs', 1, Len(execs)) = execs
    /\ execs'[Len(execs')].task = last_task'
    /\ execs'[Len(execs')].pc = "created"
    /\ running_task' = Len(execs')

\* C25: the pre-flight check fails open.  For an empty or blank command the
\* checker reports nothing to verify; and a call of start_task that is not
\* refused as busy, for a task whose command is blank, has a first segment
\* that cannot be tokenized, or has nothing but environment assignments in
\* its first segment, creates the execution and reports no missing
\* executable, whatever is on the search path.
C25_FailsOpen ==
    /\ [](\A c \in {<<>>, <<" ">>, <<" ", "\n">>} :
              detect_missing_executable(c) = None)
    /\ [][ (StartStep /\ ~busy /\ Unverifiable(config.tasks[last_task'].command)) =>
               /\ Spawns
               /\ console' = console
               /\ IsPrefix(notifications, notifications')
               /\ \A n \in Range(Added(notifications, notifications')) :
                      n.kind # "not_on_path"
         ]_vars

\* start_task has created the execution of the task whose command has a quote
\* that is never closed, and of nothing else; nothing was refused.
C25_Witness ==
    /\ last_task # 0
    /\ config.tasks[last_task] = Unbalanced
    /\ Len(execs) = 1
    /\ config.tasks[execs[1].task] = Unbalanced
    /\ running_task = 1
    /\ notifications = <<>>

\* A token of the form KEY=value with a key that is not empty.
KeyValue(token) ==
    /\ \E k \in 2..Len(token) : token[k] = "="
    /\ token[1] # "="

\* The first of the tokens that is not an assignment, if there is one.
FirstOther(tokens, Assignment(_)) ==
    LET others == {k \in 1..Len(tokens) : ~Assignment(tokens[k])}
    IN IF others = {}
       THEN None
       ELSE Some(tokens[CHOOSE k \in others : \A j \in others : k <= j])

\* The checker was called and returned, on a command whose first segment
\* shlex.split accepts.
Tokenized ==
    /\ call_args.fn = "_extract_primary_command"
    /\ call_result.outcome = "returned"
    /\ strip(call_args.command) # <<>>
    /\ shlex_split(FirstSegment(call_args.command)).ok

\* C26 as stated: within the first segment the checker skips exactly the
\* leading tokens of the form KEY=value with a non-empty KEY and returns the
\* first token that is not of that form (a token beginning with "=" is
\* returned; tokens after the candidate are not inspected).
C26_SkipsAssignments ==
    Tokenized =>
        call_result.value
            = FirstOther(shlex_split(FirstSegment(call_args.command)).tokens, KeyValue)

\* C26, amended: within the first segment the checker skips exactly the
\* leading tokens of the form KEY=value with a non-empty KEY that do not begin
\* with a quote character, and returns the first token that is not such an
\* assignment (a token beginning with "=" is returned; tokens after the
\* candidate are not inspected).
C26_SkipsUnquotedAssignments ==
    Tokenized =>
        call_result.value
            = FirstOther(shlex_split(FirstSegment(call_args.command)).tokens,
                         EnvAssignment)

\* The checker was called with \'a=a a, whose first token is 'a=a, and gave
\* that token, not the a after it.
C26_Witness ==
    /\ call_args.fn = "_extract_primary_command"
    /\ call_args.first = <<"\\", "'", "a", "=", "a", " ", "a">>
    /\ call_result = Returned(Some(<<"'", "a", "=", "a">>))

\* C27: autosave gating.  A call of start_task that is not refused as busy
\* attempts a save if and only if autosave is enabled, the buffer is modified
\* and it has a save target.  If that save fails, exactly one notification is
\* emitted for it and the start goes on to the pre-flight check: the task is
\* refused for a missing executable or its execution is created, and it is
\* created if the executable is on the search path.
C27_AutosaveGating ==
    [][ (StartStep /\ ~busy) =>
            LET due == config.autosave /\ editor.dirty /\ editor.has_path
                new == Added(notifications, notifications')
                failures == SelectSeq(new, LAMBDA n : n.kind = "autosave_failed")
                refusals == SelectSeq(new, LAMBDA n : n.kind = "not_on_path")
            IN /\ saves' = IF due THEN saves + 1 ELSE saves
               /\ IsPrefix(notifications, notifications')
               /\ ~due => (editor' = editor /\ failures = <<>>
                               /\ file_saved' = file_saved)
               /\ (due /\ ~editor'.dirty) =>
                      (failures = <<>> /\ file_saved' = file_saved + 1)
               /\ (due /\ editor'.dirty) =>
                      /\ Len(failures) = 1
                      /\ new[1] = Note("error", "autosave_failed", 0, <<>>)
                      /\ file_saved' = file_saved
                      /\ Spawns \/ (execs' = execs /\ Len(refusals) = 1)
                      /\ Resolved(last_task') => Spawns
      ]_vars

\* With autosave on and a modified buffer that has a file, start_task was
\* called, the save failed, one notification says so, and the execution of
\* the task was created all the same.
C27_Witness ==
    /\ config.autosave
    /\ saves = 1
    /\ editor.dirty
    /\ editor.has_path
    /\ notifications = << Note("error", "autosave_failed", 0, <<>>) >>
    /\ Len(execs) = 1
    /\ running_task = 1

\* The name of a built-in task.
BuiltinName(name) == \E d \in 1..Len(DefaultTasks) : TrimmedName(DefaultTasks[d]) = name

\* C29: a task list coerce_tasks returns has one TaskSpec per input mapping,
\* in the order of the input (task i has the trimmed name and command of
\* mapping i), with names and commands that are not empty and names that are
\* pairwise distinct; and load_config, which coerces the built-in tasks
\* followed by the user's, raises a configuration error and returns nothing
\* when a task of the configuration file has the name of a built-in task.
C29_RegistryWellFormed ==
    /\ (call_args.fn = "coerce_tasks" /\ call_result.outcome = "returned") =>
           LET items == call_args.items
               tasks == call_result.value
           IN /\ Len(tasks) = Len(items)
              /\ \A i \in 1..Len(tasks) :
                     /\ tasks[i].name = TrimmedName(items[i])
                     /\ tasks[i].command =
                            strip(py_str(get(items[i], "command", Str(<<>>))))
                     /\ tasks[i].name # <<>>
                     /\ tasks[i].command # <<>>
              /\ \A i, j \in 1..Len(tasks) : i # j => tasks[i].name # tasks[j].name
    /\ (call_args.fn = "load_config"
            /\ call_result.outcome # "not called"
            /\ call_args.file.exists
            /\ call_args.file.tasks.kind = "list"
            /\ \E k \in 1..Len(call_args.file.tasks.items) :
                   BuiltinName(TrimmedName(call_args.file.tasks.items[k]))) =>
           call_result = Raises("TaskConfigurationError")

\* coerce_tasks returned the tasks 'c' and 'b' for two mappings named "c" and
\* "b", in that order.
C29_Witness ==
    /\ call_args.fn = "coerce_tasks"
    /\ call_result.outcome = "returned"
    /\ Len(call_args.items) = MaxItems
    /\ call_args.items[1].name = Str(<<" ", "c">>)
    /\ call_args.items[2].name = Str(<<"b">>)
    /\ call_result.value[1].name = <<"c">>
    /\ call_result.value[2].name = <<"b">>

\* load_config was called for a configuration file with a task named as the
\* built-in task is, and with a command of its own.
C29_OverrideWitness ==
    /\ call_args.fn = "load_config"
    /\ call_result = Raises("TaskConfigurationError")
    /\ call_args.file.exists
    /\ call_args.file.tasks = List(<< RawTask(Str(<<"b">>), Str(<<"a">>), Absent) >>)
    /\ call_args.file.default_task = Absent

\* C28: the running-task handle changes only in start_task, which sets it to
\* the execution it creates, and in the completion callback, which clears it.
\* Every other action of the application (save, save all, save as, the
\* workspace switch, the scaffold, file selection, task highlighting, the
\* shortcuts, and the executions themselves) leaves it as it is, a workspace
\* switch while a task is running included.
C28_HandleFrame ==
    [][ running_task' # running_task =>
            \/ StartStep /\ Spawns
            \/ running_task' = 0 /\ \E e \in 1..Len(execs) : CallbackStep(e)
      ]_vars

\* The workspace was switched while the task started in the old workspace
\* was running; the handle still names that execution.
C28_Witness ==
    /\ running_task # 0
    /\ execs[running_task].pc \notin Terminal
    /\ execs[running_task].spec = Build
    /\ config.tasks = <<Lint, Build>>
    /\ \E k \in 1..Len(console) : console[k].kind = "switched"

(***************************************************************************)
(* Properties of the identity of the task mappings.                        *)
(***************************************************************************)
\* What the stored static contributions read as.
StoredValues(objects, stored) ==
    [i \in 1..Len(stored) |-> value_of(objects, stored[i][2])]

\* C22: static contributions are copied, not aliased.  What a stored static
\* contribution reads as never changes, whatever the plugin does to the
\* mapping it passed to add_task and whatever a caller does to the list or to
\* a mapping collect_tasks returned; and every collect_tasks call returns a
\* list that reads as the contributions as they were registered.
C22_CopiedNotAliased ==
    /\ [][ IsPrefix(StoredValues(heap, static_tasks),
                    StoredValues(heap', static_tasks')) ]_vars
    /\ [][ (static_tasks' = static_tasks /\ Len(heap') > Len(heap)) =>
               value_of(heap', call_result'.value)
                   = List(StoredValues(heap, static_tasks)) ]_vars
====
